---- MODULE Spec2Model ----
(***************************************************************************)
(* Invoice field extraction (trukkerweeler/invcclss): the PO / amount      *)
(* pattern library of ziterate.py, the supplier-based batch flow           *)
(* (process_batch_improved / process_file_with_supplier) and the result    *)
(* ledger of db.py.                                                        *)
(*                                                                         *)
(* Strings are TLA+ strings; a character is a string of length 1.          *)
(* Amounts are held in cents (float('2500.00') is 250000), so that the     *)
(* truth value Python gives a float (0.0 is false) is kept.                *)
(***************************************************************************)
EXTENDS Integers, Sequences, FiniteSets, TLC

\* Python's None where a string is expected
None == "<None>"

\* Python's None where an amount (a float, here in cents) is expected
NoAmount == -1

(***************************************************************************)
(* Characters and strings                                                  *)
(***************************************************************************)
Digits == {"0", "1", "2", "3", "4", "5", "6", "7", "8", "9"}

Space == {" ", "\n", "\t"}

Ch(s, i) == SubSeq(s, i, i)

LowerLetters == {"a", "b", "c", "d", "e", "f", "g", "h", "i", "j", "k", "l", "m",
                 "n", "o", "p", "q", "r", "s", "t", "u", "v", "w", "x", "y", "z"}

UpperOf == [c \in LowerLetters |->
              CASE c = "a" -> "A" [] c = "b" -> "B" [] c = "c" -> "C" [] c = "d" -> "D"
                [] c = "e" -> "E" [] c = "f" -> "F" [] c = "g" -> "G" [] c = "h" -> "H"
                [] c = "i" -> "I" [] c = "j" -> "J" [] c = "k" -> "K" [] c = "l" -> "L"
                [] c = "m" -> "M" [] c = "n" -> "N" [] c = "o" -> "O" [] c = "p" -> "P"
                [] c = "q" -> "Q" [] c = "r" -> "R" [] c = "s" -> "S" [] c = "t" -> "T"
                [] c = "u" -> "U" [] c = "v" -> "V" [] c = "w" -> "W" [] c = "x" -> "X"
                [] c = "y" -> "Y" [] c = "z" -> "Z"]

\* str.upper(), by halves
RECURSIVE Upper(_)
Upper(s) ==
    LET
        \* src/ziterate.py:86-86
        UpChar(c) == IF c \in LowerLetters THEN UpperOf[c] ELSE c
    IN
        IF Len(s) = 0 THEN ""
        ELSE IF Len(s) = 1 THEN UpChar(s)
        ELSE Upper(SubSeq(s, 1, Len(s) \div 2)) \o Upper(SubSeq(s, Len(s) \div 2 + 1, Len(s)))

\* str.strip()
RECURSIVE LStrip(_)
LStrip(s) == IF s # "" /\ Head(s) \in Space THEN LStrip(Tail(s)) ELSE s

RECURSIVE RStrip(_)
RStrip(s) == IF s # "" /\ Ch(s, Len(s)) \in Space THEN RStrip(SubSeq(s, 1, Len(s) - 1)) ELSE s

Strip(s) == RStrip(LStrip(s))

\* str.replace(c, "") for a set of characters
RECURSIVE RemoveChars(_, _)
RemoveChars(s, cs) ==
    IF s = "" THEN ""
    ELSE (IF Head(s) \in cs THEN "" ELSE Head(s)) \o RemoveChars(Tail(s), cs)

\* "c" in s
RECURSIVE HasChar(_, _)
HasChar(s, c) == s # "" /\ (Head(s) = c \/ HasChar(Tail(s), c))

\* index of the first c in s, 0 when there is none
RECURSIVE IndexOf(_, _, _)
IndexOf(s, c, i) ==
    IF i > Len(s) THEN 0 ELSE IF Ch(s, i) = c THEN i ELSE IndexOf(s, c, i + 1)

AllDigits(s) == \A i \in 1..Len(s) : Ch(s, i) \in Digits

\* int(s) for a string of digits
RECURSIVE IntOf(_)
IntOf(s) ==
    LET
        \* src/ziterate.py:102-109
        DigitVal == [c \in Digits |->
                       CASE c = "0" -> 0 [] c = "1" -> 1 [] c = "2" -> 2 [] c = "3" -> 3
                         [] c = "4" -> 4 [] c = "5" -> 5 [] c = "6" -> 6 [] c = "7" -> 7
                         [] c = "8" -> 8 [] c = "9" -> 9]
    IN
        IF s = "" THEN 0 ELSE 10 * IntOf(SubSeq(s, 1, Len(s) - 1)) + DigitVal[Ch(s, Len(s))]

\* str(int(s)) for a string of digits: the leading zeros are dropped
RECURSIVE StrInt(_)
StrInt(s) == IF Len(s) > 1 /\ Head(s) = "0" THEN StrInt(Tail(s)) ELSE s

\* re.sub(r"(?<=\d)\s+(?=\d)", "", s): a run of white space that has a
\* digit before it and a digit after it is removed
RECURSIVE SkipSpace(_, _)
SkipSpace(s, i) == IF i <= Len(s) /\ Ch(s, i) \in Space THEN SkipSpace(s, i + 1) ELSE i

\* the position before the run of white space that position i is in
RECURSIVE BackSpace(_, _)
BackSpace(s, i) == IF i >= 1 /\ Ch(s, i) \in Space THEN BackSpace(s, i - 1) ELSE i

\* what is left of positions lo..hi, by halves
RECURSIVE CollapseFrom(_, _, _)
CollapseFrom(s, lo, hi) ==
    LET
        \* position i is in a run the substitution removes
        \* src/ziterate.py:87-87
        Collapsed(s1, i) ==
            /\ Ch(s1, i) \in Space
            /\ BackSpace(s1, i) >= 1
            /\ Ch(s1, BackSpace(s1, i)) \in Digits
            /\ SkipSpace(s1, i) <= Len(s1)
            /\ Ch(s1, SkipSpace(s1, i)) \in Digits
    IN
        IF lo > hi THEN ""
        ELSE IF lo = hi THEN (IF Collapsed(s, lo) THEN "" ELSE Ch(s, lo))
        ELSE CollapseFrom(s, lo, (lo + hi) \div 2) \o CollapseFrom(s, (lo + hi) \div 2 + 1, hi)

CollapseDigits(s) == CollapseFrom(s, 1, Len(s))

(***************************************************************************)
(* Regular expressions, matched the way Python's re does: backtracking,    *)
(* leftmost, the first alternative and the longest repetition tried first. *)
(* ReMatch gives the ways a pattern matches at position i as a sequence in *)
(* the order the engine tries them; each way is the position after the     *)
(* match and the span of group 1 (<<>> when the group took no part).       *)
(* Every pattern of the program is used with re.IGNORECASE or has no       *)
(* letters, so literals compare case-insensitively.                        *)
(***************************************************************************)
Lit(s) == [t |-> "lit", s |-> s]

Cls(c) == [t |-> "cls", c |-> c]

Cat(a) == [t |-> "cat", a |-> a]

Alt(a) == [t |-> "alt", a |-> a]

Rep(r, lo, hi) == [t |-> "rep", r |-> r, lo |-> lo, hi |-> hi]

Grp(r) == [t |-> "grp", r |-> r]

\* \b
Wb == [t |-> "wb"]

\* \w
WordChars == LowerLetters \cup {UpperOf[c] : c \in LowerLetters} \cup Digits \cup {"_"}

\* $ ; m is TRUE under re.MULTILINE
Eol(m) == [t |-> "eol", m |-> m]

Unbounded == 1000000

Opt(r) == Rep(r, 0, 1)

Star(r) == Rep(r, 0, Unbounded)

Plus(r) == Rep(r, 1, Unbounded)

Least(set) == CHOOSE j \in set : \A k \in set : j <= k

RECURSIVE ReMatch(_, _, _)
RECURSIVE ReCat(_, _, _, _, _)
RECURSIVE ReAlt(_, _, _, _)
RECURSIVE ReRep(_, _, _, _, _, _, _)

ReMatch(r, s, i) ==
    LET
        \* a repeated class: the longest run first, then each shorter one
        \* src/config.py:42-60
        RepClass(r2, lo, hi, s3, i3) ==
            LET
                \* the position after the run of characters of a class that starts at i,
                \* at most hi of them
                \* src/config.py:42-60
                RunEnd(r1, s2, i2, hi1) ==
                    Least({ j \in i2..(Len(s2) + 1) :
                              \/ j = Len(s2) + 1
                              \/ j = i2 + hi1
                              \/ (r1.t = "cls" /\ Ch(s2, j) \notin r1.c)
                              \/ (r1.t = "ncls" /\ Ch(s2, j) \in r1.c) })
            IN
                LET Ways(e) == IF e - i3 < lo THEN << >>
                               ELSE [k \in 1..(e - i3 - lo + 1) |-> [e |-> e - k + 1, g |-> <<>>]]
                IN  Ways(RunEnd(r2, s3, i3, hi))

        \* src/classifier.py:91-95
        IsWord(s1, i1) == i1 >= 1 /\ i1 <= Len(s1) /\ Ch(s1, i1) \in WordChars
    IN
        CASE r.t = "lit" ->
               IF i + Len(r.s) - 1 <= Len(s) /\ Upper(SubSeq(s, i, i + Len(r.s) - 1)) = Upper(r.s)
               THEN << [e |-> i + Len(r.s), g |-> <<>>] >> ELSE << >>
          [] r.t = "cls" ->
               IF i <= Len(s) /\ Ch(s, i) \in r.c
               THEN << [e |-> i + 1, g |-> <<>>] >> ELSE << >>
          [] r.t = "ncls" ->
               IF i <= Len(s) /\ Ch(s, i) \notin r.c
               THEN << [e |-> i + 1, g |-> <<>>] >> ELSE << >>
          [] r.t = "wb" ->
               IF IsWord(s, i - 1) # IsWord(s, i) THEN << [e |-> i, g |-> <<>>] >> ELSE << >>
          [] r.t = "bol" ->
               IF i = 1 \/ Ch(s, i - 1) = "\n" THEN << [e |-> i, g |-> <<>>] >> ELSE << >>
          [] r.t = "eol" ->
               IF i = Len(s) + 1 \/ (i = Len(s) /\ Ch(s, i) = "\n") \/ (i <= Len(s) /\ r.m /\ Ch(s, i) = "\n")
               THEN << [e |-> i, g |-> <<>>] >> ELSE << >>
          [] r.t = "grp" ->
               LET inner == ReMatch(r.r, s, i)
               IN  [k \in 1..Len(inner) |-> [e |-> inner[k].e, g |-> <<i, inner[k].e>>]]
          [] r.t = "alt" -> ReAlt(r.a, 1, s, i)
          [] r.t = "cat" -> ReCat(r.a, 1, s, i, <<>>)
          [] r.t = "rep" -> IF r.r.t \in {"cls", "ncls"} THEN RepClass(r.r, r.lo, r.hi, s, i)
                            ELSE ReRep(r.r, r.lo, r.hi, s, i, 0, <<>>)

ReAlt(a, k, s, i) ==
    IF k > Len(a) THEN << >> ELSE ReMatch(a[k], s, i) \o ReAlt(a, k + 1, s, i)

ReCat(a, k, s, i, g) ==
    IF k > Len(a) THEN << [e |-> i, g |-> g] >>
    ELSE LET first == ReMatch(a[k], s, i)
             rest[n \in 0..Len(first)] ==
                 IF n = 0 THEN << >>
                 ELSE rest[n - 1] \o
                      ReCat(a, k + 1, s, first[n].e, IF first[n].g # <<>> THEN first[n].g ELSE g)
         IN  rest[Len(first)]

ReRep(r, lo, hi, s, i, n, g) ==
    LET more == IF n < hi THEN ReMatch(r, s, i) ELSE << >>
        rest[m \in 0..Len(more)] ==
            IF m = 0 THEN << >>
            ELSE rest[m - 1] \o
                 (IF more[m].e > i
                  THEN ReRep(r, lo, hi, s, more[m].e, n + 1,
                             IF more[m].g # <<>> THEN more[m].g ELSE g)
                  ELSE << >>)
    IN  rest[Len(more)] \o (IF n >= lo THEN << [e |-> i, g |-> g] >> ELSE << >>)

\* the text of group 1 of a match, None when the group took no part
Group1(s, m) == IF m.g = <<>> THEN None ELSE SubSeq(s, m.g[1], m.g[2] - 1)

\* the positions from i on where r matches
Hits(r, s, i) == { j \in i..(Len(s) + 1) : ReMatch(r, s, j) # << >> }

\* re.search: the first way of the leftmost position that matches;
\* [pos |-> 0] when there is no match
ReSearch(r, s) ==
    LET At(hits) == IF hits = {} THEN [pos |-> 0]
                    ELSE [pos |-> Least(hits), m |-> ReMatch(r, s, Least(hits))[1]]
    IN  At(Hits(r, s, 1))

\* re.findall for a pattern with one group: group 1 of the successive
\* non-overlapping matches, left to right
RECURSIVE ReFindAllFrom(_, _, _)
ReFindAllFrom(r, s, i) ==
    LET Found(j, way) ==
            << (IF way.g = <<>> THEN "" ELSE Group1(s, way)) >> \o
            ReFindAllFrom(r, s, IF way.e > j THEN way.e ELSE j + 1)
        At(hits) == IF hits = {} THEN << >>
                    ELSE Found(Least(hits), ReMatch(r, s, Least(hits))[1])
    IN  At(Hits(r, s, i))

(***************************************************************************)
(* PO numbers: shape, normalisation, generic patterns                      *)
(***************************************************************************)
D == Cls(Digits)

S == Cls(Space)

DashDD == Opt(Cat(<<Lit("-"), Rep(D, 2, 2)>>))

\* [0-9]{5}(?:-\d{2})?|0{2}[0-9]{5}(?:-\d{2})? : the 5-digit alternative first
PoFiveFirst ==
    Alt(<< Cat(<<Rep(D, 5, 5), DashDD>>),
           Cat(<<Rep(Lit("0"), 2, 2), Rep(D, 5, 5), DashDD>>) >>)

\* 0{2}[0-9]{5}(?:-\d{2})?|[0-9]{5}(?:-\d{2})? : the 7-digit alternative first
PoSevenFirst ==
    Alt(<< Cat(<<Rep(Lit("0"), 2, 2), Rep(D, 5, 5), DashDD>>),
           Cat(<<Rep(D, 5, 5), DashDD>>) >>)

PO_PATTERNS ==
    LET
        \* src/ziterate.py:37-46
        Bol == [t |-> "bol"]
    IN
        << Cat(<< Alt(<< Cat(<<Lit("P"), Opt(Lit(".")), Star(S), Lit("O"), Opt(Lit("."))>>),
                         Lit("PO"),
                         Cat(<<Lit("PURCHASE"), Plus(S), Lit("ORDER")>>),
                         Lit("Order") >>),
                  Star(S), Plus(Cls({"#", ":"} \cup Space)), Grp(PoFiveFirst) >>),
           Cat(<< Alt(<< Lit("PO"), Cat(<<Lit("Purchase"), Plus(S), Lit("Order")>>) >>),
                  Plus(S), Opt(Alt(<<Lit("Number"), Lit("#")>>)), Star(S), Grp(PoFiveFirst) >>),
           Cat(<< Bol, Grp(PoFiveFirst), Eol(TRUE) >>),
           Cat(<< Lit("-"), Rep(D, 4, 4), Plus(S), Grp(PoFiveFirst) >>) >>

ValidPO(s) ==
    LET
        \* ^([0-9]{5}|0{2}[0-9]{5})(-\d{2})?$
        \* src/ziterate.py:98-98
        PoShape == Cat(<< Alt(<<Rep(D, 5, 5), Cat(<<Rep(Lit("0"), 2, 2), Rep(D, 5, 5)>>)>>), DashDD >>)

        \* re.match(r"^...$", s), without re.MULTILINE
        \* src/ziterate.py:98-98
        ReFullMatch(r, s1) == ReMatch(Cat(<<r, Eol(FALSE)>>), s1, 1) # << >>
    IN
        ReFullMatch(PoShape, s)

\* a normalisation that keeps the leading zeros
NormalizePOKeepZeros(po) == po

\* the main part loses its leading zeros (str(int(main_part))), the suffix is kept
NormalizePO(po) ==
    LET Split(k) == IF k = 0 THEN StrInt(po)
                    ELSE StrInt(SubSeq(po, 1, k - 1)) \o "-" \o SubSeq(po, k + 1, Len(po))
    IN  Split(IndexOf(po, "-", 1))

\* sorted(list(po_matches), key=...): po_matches is a set of strings, whose
\* iteration order changes from run to run (string hashing is randomised),
\* and sorted() is stable, so POs with equal keys come out in either order.
SortedByMain(set) ==
    LET
        \* int(x.split("-")[0]), the sort key of a normalised PO
        \* src/ziterate.py:111-111
        MainKey(po) ==
            LET k == IndexOf(po, "-", 1)
            IN  IntOf(IF k = 0 THEN po ELSE SubSeq(po, 1, k - 1))
    IN
        LET n == Cardinality(set)
        IN  { p \in [1..n -> set] :
                /\ \A i, j \in 1..n : i # j => p[i] # p[j]
                /\ \A i, j \in 1..n : i < j => MainKey(p[i]) <= MainKey(p[j]) }

\* po_matches of extract_po_number
PoMatchSet(text) ==
    LET
        \* the matches of one generic pattern: the collapsed text first, the plain
        \* upper-cased text only when the collapsed one gave nothing
        \* src/ziterate.py:90-109
        PatternMatches(pattern, text1) ==
            LET
                \* src/ziterate.py:92-95
                ReFindAll(r, s) == ReFindAllFrom(r, s, 1)
            IN
                LET OrPlain(matches, text_upper) ==
                        IF matches # << >> THEN matches ELSE ReFindAll(pattern, text_upper)
                    Both(text_upper) == OrPlain(ReFindAll(pattern, CollapseDigits(text_upper)), text_upper)
                IN  Both(Upper(text1))
    IN
        LET Valid(matches) ==
                { NormalizePO(matches[i]) : i \in { j \in 1..Len(matches) : ValidPO(matches[j]) } }
        IN  UNION { Valid(PatternMatches(PO_PATTERNS[k], text)) : k \in 1..Len(PO_PATTERNS) }

\* extract_po_number(text): the lists it can return
extract_po_number(text) == SortedByMain(PoMatchSet(text))

(***************************************************************************)
(* Amounts                                                                 *)
(***************************************************************************)

\* _clean_amount(s): None for None or "", else the first numeric token of s
\* without "," and "$"
clean_amount(s) ==
    LET
        \* ([0-9]+(?:\.[0-9]{1,2})?)
        \* src/ziterate.py:130-142
        AmountToken == Grp(Cat(<<Plus(D), Opt(Cat(<<Lit("."), Rep(D, 1, 2)>>))>>))
    IN
        IF s = None \/ s = "" THEN None
        ELSE LET Token(amt, m) == IF m.pos # 0 THEN Group1(amt, m.m) ELSE None
                 First(amt) == Token(amt, ReSearch(AmountToken, amt))
             IN  First(Strip(RemoveChars(s, {",", "$"})))

\* float(s) in cents for digits(.digits{1,2})?, NoAmount where float() raises
\* ValueError (float() strips white space first)
ParseFloat(s) ==
    LET a == Strip(s)
        k == IndexOf(a, ".", 1)
        whole == IF k = 0 THEN a ELSE SubSeq(a, 1, k - 1)
        frac == IF k = 0 THEN "" ELSE SubSeq(a, k + 1, Len(a))
    IN  IF whole = "" \/ ~AllDigits(whole) \/ ~AllDigits(frac) \/ Len(frac) > 2 \/ (k # 0 /\ frac = "")
        THEN NoAmount
        ELSE 100 * IntOf(whole) + (IF Len(frac) = 1 THEN 10 * IntOf(frac) ELSE IntOf(frac))

\* the truth value Python gives a string or None: None and "" are false
Truthy(v) == v # None /\ v # ""

generic_patterns ==
    LET
        \* src/ziterate.py:172-183
        AmountNumber == Grp(Cat(<<Plus(Cls(Digits \cup {","})), Lit("."), Rep(D, 2, 2)>>))
    IN
        << Cat(<< Alt(<< Lit("Total"),
                         Cat(<<Lit("Invoice"), Star(S), Lit("Total")>>),
                         Cat(<<Lit("Amount"), Star(S), Lit("Due")>>),
                         Lit("Amount"),
                         Cat(<<Lit("Balance"), Star(S), Lit("Due")>>) >>),
                  Star(S), Star(Cls({":", "-"})), Star(S), Opt(Lit("$")), Star(S), AmountNumber >>),
           Cat(<< Lit("Subtotal"), Star(S), Star(Cls({":", "-"})), Star(S), Opt(Lit("$")), Star(S),
                  AmountNumber >>),
           Cat(<< Lit("$"), Star(S), AmountNumber >>) >>

RECURSIVE FirstSupplierAmount(_, _, _)
FirstSupplierAmount(patterns, k, text) ==
    LET
        \* one supplier pattern: the amount it yields, None to go on to the next
        \* src/ziterate.py:145-169
        SupplierAmount(pattern, text1) ==
            LET
                \* A stored amount pattern is the string the user saved, src. compiles tells
                \* whether re accepts it; if so re is the expression and groups tells whether
                \* it has a capturing group. A string re rejects (re.error) is searched as a
                \* literal label:
                \* {re.escape(pattern)}\s*[:\$\-]*\s*([0-9,]+\.?[0-9]*)
                \* src/ziterate.py:145-169
                LabelAmountPattern(label) ==
                    Cat(<< Lit(label), Star(S), Star(Cls({":", "$", "-"})), Star(S),
                           Grp(Cat(<<Plus(Cls(Digits \cup {","})), Opt(Lit(".")), Star(D)>>)) >>)

                \* the text of the whole match that starts at i
                \* src/ziterate.py:216-217
                Group0(s, i, m) == SubSeq(s, i, m.e - 1)
            IN
                LET Whole(m, byGroup) ==
                        IF pattern.groups /\ Truthy(byGroup) THEN byGroup
                        ELSE clean_amount(Group0(text1, m.pos, m.m))
                    Compiled(m) ==
                        IF m.pos = 0 THEN None
                        ELSE Whole(m, IF m.m.g # <<>> THEN clean_amount(Group1(text1, m.m)) ELSE None)
                    Label(m) == IF m.pos = 0 THEN None ELSE clean_amount(Group1(text1, m.m))
                IN  IF pattern.compiles THEN Compiled(ReSearch(pattern.re, text1))
                    ELSE Label(ReSearch(LabelAmountPattern(pattern.src), text1))
    IN
        IF k > Len(patterns) THEN None
        ELSE LET OrNext(amt) ==
                     IF Truthy(amt) THEN amt ELSE FirstSupplierAmount(patterns, k + 1, text)
             IN  OrNext(SupplierAmount(patterns[k], text))

RECURSIVE FirstGenericAmount(_, _)
FirstGenericAmount(k, text) ==
    IF k > Len(generic_patterns) THEN None
    ELSE LET OrNext(amt) == IF Truthy(amt) THEN amt ELSE FirstGenericAmount(k + 1, text)
             Found(m) == IF m.pos = 0 THEN None ELSE clean_amount(Group1(text, m.m))
         IN  OrNext(Found(ReSearch(generic_patterns[k], text)))

\* extract_amount_from_text(text, supplier): the amount string, or None
extract_amount_from_text(text, supplier, po_profiles) ==
    LET OrGeneric(bySupplier) ==
            IF Truthy(bySupplier) THEN bySupplier ELSE FirstGenericAmount(1, text)
    IN  OrGeneric(IF Truthy(supplier) /\ supplier \in DOMAIN po_profiles
                  THEN FirstSupplierAmount(po_profiles[supplier].amount_patterns, 1, text)
                  ELSE None)

(***************************************************************************)
(* extract_po_with_supplier_profile                                        *)
(***************************************************************************)

\* re.search on the collapsed text, then on the text; group 1 of the match,
\* "" when neither matches, None when the match left the group out
SearchBoth(pattern, collapsed_text, text) ==
    LET Pick(m1, m2) ==
            IF m1.pos # 0 THEN Group1(collapsed_text, m1.m)
            ELSE IF m2.pos # 0 THEN Group1(text, m2.m)
            ELSE ""
    IN  Pick(ReSearch(pattern, collapsed_text), ReSearch(pattern, text))

\* the labels of the stored profile, in order: [raised, found]; a label
\* that matches with group 1 = None makes '"-" in po' raise TypeError
RECURSIVE LabelMatches(_, _, _, _)
LabelMatches(po_patterns, k, collapsed_text, text) ==
    LET
        \* {re.escape(pattern_label)}\s+([0-9]{5}(?:-\d{2})?|0{2}[0-9]{5}(?:-\d{2})?)?
        \* : the group is optional, so the label followed by white space matches
        \* with group 1 = None
        \* src/ziterate.py:279-298
        LabelPoPattern(pattern_label) == Cat(<<Lit(pattern_label), Plus(S), Opt(Grp(PoFiveFirst))>>)
    IN
        IF k > Len(po_patterns) THEN [raised |-> FALSE, found |-> {}]
        ELSE LET Add(po, rest) ==
                     IF po = None THEN [raised |-> TRUE, found |-> {}]
                     ELSE IF po = "" THEN rest
                     ELSE [raised |-> rest.raised, found |-> {NormalizePO(po)} \cup rest.found]
             IN  Add(SearchBoth(LabelPoPattern(po_patterns[k]), collapsed_text, text),
                     LabelMatches(po_patterns, k + 1, collapsed_text, text))

\* a fallback test that does not look at po_matches
FallbackRunsWhateverMatched(supplier, blan1_match_found, elad01_match_found, po_matches) ==
    IF supplier = "BLAN1" THEN ~blan1_match_found
    ELSE IF supplier = "ELAD01" THEN ~elad01_match_found
    ELSE TRUE

\* Whether the generic fallback of lines 300-318 calls extract_po_number:
\* the conditions of lines 305, 307 and 316
FallbackRuns(supplier, blan1_match_found, elad01_match_found, po_matches) ==
    IF supplier = "BLAN1" THEN ~blan1_match_found /\ po_matches = {}
    ELSE IF supplier = "ELAD01" THEN ~elad01_match_found /\ po_matches = {}
    ELSE po_matches = {}

\* extract_po_with_supplier_profile(text, supplier): what a call can do;
\* list is the returned list
extract_po_with_supplier_profile(text, supplier, po_profiles) ==
    LET
        \* the hard-coded marker of BLAN1 and ASSP01: the POs it adds to po_matches
        \* src/ziterate.py:206-267
        MarkerMatches(supplier2, collapsed_text, text2) ==
            LET
                \* PO#\s+(0{2}[0-9]{5}(?:-\d{2})?|[0-9]{5}(?:-\d{2})?)
                \* src/ziterate.py:246-267
                Assp01Pattern == Cat(<<Lit("PO#"), Plus(S), Grp(PoSevenFirst)>>)

                \* 5590\s+(0{2}[0-9]{5}(?:-\d{2})?|[0-9]{5}(?:-\d{2})?)
                \* src/ziterate.py:206-243
                Blan1Pattern == Cat(<<Lit("5590"), Plus(S), Grp(PoSevenFirst)>>)
            IN
                LET Found(po) == IF po = "" THEN {} ELSE {NormalizePO(po)}
                IN  Found(IF supplier2 \in {"BLAN1", "ASSP01"}
                          THEN SearchBoth(IF supplier2 = "BLAN1" THEN Blan1Pattern ELSE Assp01Pattern,
                                          collapsed_text, text2)
                          ELSE "")

        \* What one call does, given the list generic_matches that extract_po_number
        \* returns for this text in this run:
        \*   raised       TypeError left the function
        \*   po_matches   the set that is sorted and returned
        \*   specific     the POs found by the supplier's own rules (marker, labels)
        \*   generic_ran  extract_po_number was called
        \* src/ziterate.py:188-320
        PoProfileRun(text1, supplier1, po_profiles1, generic_matches) ==
            LET elad01_match_found == supplier1 = "ELAD01" /\ generic_matches # << >>
                elad == IF elad01_match_found THEN {generic_matches[1]} ELSE {}
                Added(fallback) ==
                    IF ~fallback THEN {}
                    ELSE IF supplier1 = "ELAD01"
                         THEN (IF generic_matches # << >> THEN {generic_matches[1]} ELSE {})
                         ELSE {generic_matches[i] : i \in 1..Len(generic_matches)}
                Result(marker, labels, before, fallback) ==
                    [raised |-> labels.raised,
                     po_matches |-> before \cup Added(fallback),
                     specific |-> marker \cup labels.found,
                     generic_ran |-> supplier1 = "ELAD01" \/ fallback]
                Fallback(marker, labels, before) ==
                    Result(marker, labels, before,
                           FallbackRuns(supplier1, supplier1 = "BLAN1" /\ marker # {},
                                        elad01_match_found, before))
                Rules(marker, labels) == Fallback(marker, labels, marker \cup elad \cup labels.found)
                Specific(collapsed_text) ==
                    Rules(MarkerMatches(supplier1, collapsed_text, text1),
                          IF Truthy(supplier1) /\ supplier1 \in DOMAIN po_profiles1
                          THEN LabelMatches(po_profiles1[supplier1].po_patterns, 1, collapsed_text, text1)
                          ELSE [raised |-> FALSE, found |-> {}])
            IN  Specific(CollapseDigits(text1))
    IN
        LET Lists(run) ==
                IF run.raised
                THEN { [raised |-> TRUE, list |-> << >>, specific |-> run.specific,
                        generic_ran |-> run.generic_ran] }
                ELSE { [raised |-> FALSE, list |-> l, specific |-> run.specific,
                        generic_ran |-> run.generic_ran] : l \in SortedByMain(run.po_matches) }
        IN  UNION { Lists(PoProfileRun(text, supplier, po_profiles, generic_matches))
                    : generic_matches \in extract_po_number(text) }

\* match_supplier_from_filename: ^\d{4}-\d{2}_([A-Z0-9]+)_ , case-sensitive
UpperLetters == {UpperOf[c] : c \in LowerLetters}

RECURSIVE CodeEnd(_, _)
CodeEnd(filename, i) ==
    IF i <= Len(filename) /\ Ch(filename, i) \in UpperLetters \cup Digits
    THEN CodeEnd(filename, i + 1) ELSE i

\* a matcher that takes the file name up to its first "." as the code when
\* the name does not follow the convention
match_supplier_any(filename) ==
    LET e == CodeEnd(filename, 9)
    IN  IF /\ Len(filename) >= 10
           /\ AllDigits(SubSeq(filename, 1, 4)) /\ Ch(filename, 5) = "-"
           /\ AllDigits(SubSeq(filename, 6, 7)) /\ Ch(filename, 8) = "_"
           /\ e > 9 /\ e <= Len(filename) /\ Ch(filename, e) = "_"
        THEN SubSeq(filename, 9, e - 1)
        ELSE Upper(SubSeq(filename, 1, IndexOf(filename, ".", 1) - 1))

\* [A-Z0-9]+ is greedy and cannot contain "_", so the code ends at the first
\* character that is neither an upper-case letter nor a digit
match_supplier_from_filename(filename) ==
    LET e == CodeEnd(filename, 9)
    IN  IF /\ Len(filename) >= 10
           /\ AllDigits(SubSeq(filename, 1, 4)) /\ Ch(filename, 5) = "-"
           /\ AllDigits(SubSeq(filename, 6, 7)) /\ Ch(filename, 8) = "_"
           /\ e > 9 /\ e <= Len(filename) /\ Ch(filename, e) = "_"
        THEN SubSeq(filename, 9, e - 1)
        ELSE None

(***************************************************************************)
(* Manual entry and location OCR: the other two places that canonicalise.  *)
(***************************************************************************)
\* POConfirmationUI.confirm_manual on the text of the entry field: the
\* confirmed PO, None when the entry is refused (the dialog stays open)
confirm_manual(entry) ==
    LET Checked(po) == IF po = "" THEN None
                       ELSE IF ~ValidPO(po) THEN None
                       ELSE NormalizePO(po)
    IN  Checked(Upper(Strip(entry)))

\* extract_po_from_location on the text OCR read in the PO box
LocationPO(ocr_text) ==
    LET Found(m) == IF m.pos # 0 THEN NormalizePO(Group1(ocr_text, m.m)) ELSE None
    IN  Found(ReSearch(Grp(PoSevenFirst), ocr_text))

(***************************************************************************)
(* The scan directory, the stores and the batch run                        *)
(***************************************************************************)
\* Bounds of the model
MaxBatch == 3

MaxSaved == 1

\* The PDFs of SCAN_DIRECTORY in the order of sorted(glob.glob(...)).
\* readable = FALSE is a file on which both pdfplumber and PyMuPDF fail,
\* so that extract_text raises.
Docs ==
    << [filename |-> "2024-03_ACME1_invoice.pdf", readable |-> TRUE,
        text |-> "INVOICE DATE: Mar 15, 2024 ... PO# 0040123-00 ... Total: $2,500.00"],
       [filename |-> "2024-03_ACME1_nopo.pdf", readable |-> TRUE,
        text |-> "INVOICE DATE: Mar 15, 2024 ... Total: $2,500.00"],
       [filename |-> "2024-04_ACME1_zero.pdf", readable |-> TRUE,
        text |-> "PO: 40123 Total: $0.00"],
       [filename |-> "2024-05_ACME1_corrupt.pdf", readable |-> FALSE, text |-> ""],
       [filename |-> "2024-07_PROF1_rel.pdf", readable |-> TRUE,
        text |-> "PO/Rel see below Total: $10.00"],
       [filename |-> "scan0001.pdf", readable |-> TRUE,
        text |-> "PO: 40085 Total: $5.00"] >>

Filenames == {Docs[i].filename : i \in 1..Len(Docs)}

DocOf(filename) == CHOOSE d \in {Docs[i] : i \in 1..Len(Docs)} : d.filename = filename

\* The rows of table po_profiles (get_po_profiles)
StoredPoProfiles ==
    [PROF1 |-> [po_patterns |-> <<"PO/Rel">>, amount_patterns |-> << >>]]

\* What the store calls of one stretch of process_file_with_supplier do:
\* "up" all succeed, "flaky" the first write raises and later calls succeed,
\* "down" every call raises (sqlite3.Error).
DbModes == {"up", "flaky", "down"}

\* What the person does in the manual entry window: Skip File, or Save &
\* Continue with the fields as left. po = "<keep>" leaves the PO field as it
\* was filled in (the first candidate, or empty).
Keep == "<keep>"

VARIABLES
    ledger,       \* table extraction_results: filename -> row
    progress,     \* table processing_progress: filename -> [status, notes]
    po_profiles,  \* table po_profiles
    extracted,    \* what the extraction functions give for each file's text under
                  \* po_profiles: neither changes, so it is computed once, in Init
    pc,           \* "idle"; "batch" inside the loop of process_batch_improved;
                  \* "manual" while the manual entry window is open
    queue,        \* the files of the batch not yet processed
    counts,       \* processed_count, complete_count, incomplete_count, error_count
    last,         \* the last call of process_file_with_supplier: result and locals
    escaped,      \* an exception left process_file_with_supplier in this run
    open,         \* the call that waits in the manual entry window
    files_saved,  \* DocumentProcessor.files_saved
    location_mappings,       \* location_mappings.json: supplier -> its boxes
    classification_samples,  \* table classification_samples, rows in rowid order
    profile_file,            \* the JSON file at PROFILE_PATH
    gui_profiles,            \* self.profiles of the classifier window
    extraction_results,      \* table extraction_results row by row, with the
                             \* AUTOINCREMENT sequence; ledger is its view by filename
    processor,    \* the DocumentProcessor window: its attributes and form fields
    legacy,       \* the legacy loop: po_extraction_progress.json,
                  \* po_extraction_results.json and where run_processing_loop is
    arg,          \* input of the function under study
    ret           \* what the function returned

vars == <<ledger, progress, po_profiles, extracted, pc, queue, counts, last, escaped, open, files_saved,
          location_mappings, classification_samples, profile_file, gui_profiles,
          extraction_results, processor, legacy, arg, ret>>

\* the location file, the classification samples and the classifier window
Side == <<location_mappings, classification_samples, profile_file, gui_profiles,
          extraction_results, processor, legacy>>

NoRows == [f \in {} |-> None]

\* PROFILE_PATH does not exist
NoFile == [exists |-> FALSE]

\* no location file, no classification sample, no profile file
SideIdle ==
    /\ location_mappings = NoRows
    /\ classification_samples = << >>
    /\ profile_file = NoFile
    /\ gui_profiles = << >>
    /\ extraction_results = [rows |-> << >>, seq |-> 0]
    /\ processor = [running |-> FALSE]
    /\ legacy = [running |-> FALSE]

NoCall == [called |-> FALSE]

NoArg == [fn |-> "none"]

ZeroCounts == [processed |-> 0, complete |-> 0, incomplete |-> 0, error |-> 0]

Init ==
    LET
        \* For each file of the directory, what the two extraction functions do on
        \* its text under the stored profiles.
        \* src/ziterate.py:1136-1150
        ExtractedUnder(profiles) ==
            [i \in 1..Len(Docs) |->
               LET supplier_code == match_supplier_from_filename(Docs[i].filename)
               IN  [po_runs |-> extract_po_with_supplier_profile(Docs[i].text, supplier_code, profiles),
                    amount_str |-> extract_amount_from_text(Docs[i].text, supplier_code, profiles)]]
    IN
        /\ ledger = NoRows
        /\ progress = NoRows
        /\ po_profiles = StoredPoProfiles
        /\ extracted = ExtractedUnder(po_profiles)
        /\ pc = "idle"
        /\ queue = << >>
        /\ counts = ZeroCounts
        /\ last = NoCall
        /\ escaped = FALSE
        /\ open = [parked |-> FALSE]
        /\ files_saved = 0
        /\ SideIdle
        /\ arg = NoArg
        /\ ret = NoArg

\* INSERT OR REPLACE keyed by filename (save_extraction_result,
\* update_extraction_status)
Upsert(table, filename, row) == [f \in DOMAIN table \cup {filename} |->
                                    IF f = filename THEN row ELSE table[f]]

\* the selection of process_batch_improved: no row, or a row with status pending
\* a selection that also takes the files stored as incomplete
UnprocessedOrIncomplete(table, filename) ==
    \/ filename \notin DOMAIN table
    \/ table[filename].status \in {"pending", "incomplete"}

\* the test of lines 1228-1229: not result or result["status"] == "pending"
Unprocessed(table, filename) ==
    filename \notin DOMAIN table \/ table[filename].status = "pending"

RECURSIVE SelectUnprocessed(_, _)
SelectUnprocessed(table, k) ==
    IF k > Len(Docs) THEN << >>
    ELSE (IF Unprocessed(table, Docs[k].filename) THEN <<Docs[k].filename>> ELSE << >>)
         \o SelectUnprocessed(table, k + 1)

(***************************************************************************)
(* process_file_with_supplier                                              *)
(***************************************************************************)

\* What one call did: the dict it returned, whether an exception left it,
\* the rows it wrote, and its locals (po_candidates, the amount string of
\* extract_amount_from_text, whether the manual entry window was opened,
\* the exception the handler caught).
Outcome(result, esc, rows, prog, po_candidates, amount_str, ui_shown, exc) ==
    [result |-> result, escaped |-> esc, ledger_rows |-> rows, progress_rows |-> prog,
     po_candidates |-> po_candidates, amount_str |-> amount_str, ui_shown |-> ui_shown,
     exc |-> exc]

\* the except clause, lines 1198-1202: status error, then
\* update_extraction_status, whose own failure leaves the function.
\* wrote tells whether a store write was already attempted in this call.
Handler(result, exc, db, wrote, po_candidates, amount_str, ui_shown) ==
    LET res == [result EXCEPT !.status = "error", !.notes = @ \o <<"Error: " \o exc>>]
        update_raises == db = "down" \/ (db = "flaky" /\ ~wrote)
    IN  Outcome(res, update_raises, << >>,
                IF update_raises THEN << >> ELSE << [status |-> "error", notes |-> res.notes] >>,
                po_candidates, amount_str, ui_shown, exc)

\* Step 6, lines 1183-1196, and the handler when save_extraction_result raises
Step6(res, db, po_candidates, amount_str, ui_shown) ==
    LET
        \* the row save_extraction_result writes at lines 1184-1194
        \* src/ziterate.py:1183-1196
        RowOf(res1) ==
            [supplier_code |-> res1.supplier, po_number |-> res1.po_number, amount |-> res1.amount,
             check_no |-> res1.check_no, receiver_id |-> res1.receiver_id, invoice_no |-> None,
             human_field |-> res1.human_field, status |-> res1.status]
    IN
        IF db # "up"
        THEN Handler(res, "sqlite3.Error", db, TRUE, po_candidates, amount_str, ui_shown)
        ELSE Outcome([res EXCEPT !.notes = @ \o <<"Saved to database">>], FALSE,
                     << RowOf(res) >>, << [status |-> res.status, notes |-> res.notes] >>,
                     po_candidates, amount_str, ui_shown, "none")

\* process_file_with_supplier(pdf_path, filename) up to the manual entry
\* window. po_runs is what extract_po_with_supplier_profile can do on the
\* text and amount_str what extract_amount_from_text returns. db "flaky"
\* makes the first store write of the call raise, "down" every store call.
process_file_with_supplier(doc, po_runs, amount_str, db) ==
    LET
        \* the test of line 1153
        \* src/ziterate.py:1153-1153
        CompleteCondition(po_number, amount) ==
            LET
                \* the truth value Python gives a float or None: None and 0.0 are false
                \* src/ziterate.py:1153-1153
                TruthyFloat(v) == v # NoAmount /\ v # 0
            IN
                Truthy(po_number) /\ TruthyFloat(amount)

        \* src/ziterate.py:1101-1204
        Done(outcome) == [parked |-> FALSE, outcome |-> outcome]

        \* Steps 3 to 5 for one list of PO candidates: the call either goes on to
        \* step 6 (complete) or waits in the manual entry window (parked)
        \* src/ziterate.py:1136-1161
        AfterPo(result, po_candidates, amount_str1, db1) ==
            LET r3 == IF po_candidates # << >>
                      THEN [result EXCEPT !.po_number = po_candidates[1], !.notes = @ \o <<"PO extracted">>]
                      ELSE [result EXCEPT !.notes = @ \o <<"No PO found">>]
                r4 == IF Truthy(amount_str1)
                      THEN [r3 EXCEPT !.amount = ParseFloat(amount_str1), !.notes = @ \o <<"Amount extracted">>]
                      ELSE r3
            IN  IF CompleteCondition(r4.po_number, r4.amount)
                THEN [parked |-> FALSE,
                      outcome |-> Step6([r4 EXCEPT !.status = "complete", !.human_field = "N",
                                                   !.notes = @ \o <<"Complete extraction">>],
                                        db1, po_candidates, amount_str1, FALSE)]
                ELSE [parked |-> TRUE,
                      result |-> [r4 EXCEPT !.status = "incomplete", !.human_field = "Y",
                                            !.notes = @ \o <<"Incomplete">>],
                      po_candidates |-> po_candidates, amount_str |-> amount_str1]

        \* the result dict as built at lines 1106-1117
        \* src/ziterate.py:1106-1117
        NewResult(filename) ==
            [filename |-> filename, supplier |-> None, po_number |-> None, amount |-> NoAmount,
             check_no |-> None, receiver_id |-> None, human_field |-> "N", status |-> "pending",
             notes |-> << >>]
    IN
        LET r0 == NewResult(doc.filename)
            r1 == [r0 EXCEPT !.notes = @ \o <<"Text extracted">>]
            supplier_code == match_supplier_from_filename(doc.filename)
            r2 == [r1 EXCEPT !.supplier = supplier_code, !.notes = @ \o <<"Supplier matched">>]
        IN  IF ~doc.readable
            THEN { Done(Handler(r0, "extract_text", db, FALSE, << >>, None, FALSE)) }
            ELSE IF ~Truthy(supplier_code)
            THEN { Done(Outcome([r1 EXCEPT !.status = "error", !.notes = @ \o <<"No supplier">>],
                                FALSE, << >>, << >>, << >>, None, FALSE, "none")) }
            ELSE IF db = "down"
            THEN { Done(Handler(r2, "sqlite3.Error", db, FALSE, << >>, None, FALSE)) }
            ELSE { IF run.raised
                   THEN Done(Handler(r2, "TypeError", db, FALSE, << >>, None, FALSE))
                   ELSE AfterPo(r2, run.list, amount_str, db)
                   : run \in po_runs }

\* the rest of the call once the person closed the manual entry window
process_file_after_entry(call, db, human) ==
    LET
        \* lines 1158-1181, once the manual entry window is closed
        \* src/ziterate.py:1163-1181
        AfterManualEntry(result, po_candidates, human2) ==
            LET
                \* create_manual_entry_ui: (po, amount, check, receiver) as returned
                \* src/ziterate.py:979-1098
                ManualEntry(po_candidates1, human1) ==
                    LET prefill == IF po_candidates1 # << >> THEN po_candidates1[1] ELSE ""
                        po_var == IF human1.po = Keep THEN prefill ELSE human1.po
                        OrNone(v) == IF Strip(v) = "" THEN None ELSE Strip(v)
                    IN  IF human1.save
                        THEN [po |-> OrNone(po_var), amount |-> OrNone(human1.amount),
                              check |-> OrNone(human1.check), receiver |-> OrNone(human1.receiver)]
                        ELSE [po |-> None, amount |-> None, check |-> None, receiver |-> None]
            IN
                LET entry == ManualEntry(po_candidates, human2)
                    typed == IF Truthy(entry.amount) THEN ParseFloat(entry.amount) ELSE NoAmount
                IN  IF entry.po # None \/ entry.amount # None
                    THEN [result EXCEPT
                             !.po_number = IF Truthy(entry.po) THEN entry.po ELSE @,
                             !.amount = IF typed # NoAmount THEN typed ELSE @,
                             !.check_no = IF Truthy(entry.check) THEN entry.check ELSE @,
                             !.receiver_id = IF Truthy(entry.receiver) THEN entry.receiver ELSE @,
                             !.status = "complete_manual",
                             !.notes = @ \o <<"Manual entry completed">>]
                    ELSE [result EXCEPT !.notes = @ \o <<"Manual entry skipped">>]
    IN
        Step6(AfterManualEntry(call.result, call.po_candidates, human), db,
              call.po_candidates, call.amount_str, TRUE)

(***************************************************************************)
(* Actions                                                                 *)
(***************************************************************************)
\* process_batch_improved up to the loop: the unprocessed files, the batch
BatchStart(batch_size) ==
    LET
        \* src/ziterate.py:1237-1237
        Take(seq, n) == SubSeq(seq, 1, IF n < Len(seq) THEN n ELSE Len(seq))
    IN
        LET unprocessed == SelectUnprocessed(ledger, 1)
        IN  /\ pc = "idle"
            /\ unprocessed # << >>
            /\ pc' = "batch"
            /\ queue' = Take(unprocessed, batch_size)
            /\ counts' = ZeroCounts
            /\ last' = NoCall
            /\ escaped' = FALSE
            /\ UNCHANGED <<ledger, progress, po_profiles, extracted, open, files_saved, arg, ret, Side>>

\* process_file_with_supplier returned (or raised) for the head of the batch
Returned(o, db, human) ==
    LET
        \* the counters of lines 1252-1264
        \* src/ziterate.py:1247-1264
        Count(c, status) ==
            [c EXCEPT !.processed = @ + 1,
                      !.complete = IF status \in {"complete", "complete_manual"} THEN @ + 1 ELSE @,
                      !.incomplete = IF status = "incomplete" THEN @ + 1 ELSE @,
                      !.error = IF status = "error" THEN @ + 1 ELSE @]
    IN
        /\ ledger' = IF o.ledger_rows # << >>
                     THEN Upsert(ledger, Head(queue), o.ledger_rows[1]) ELSE ledger
        /\ progress' = IF o.progress_rows # << >>
                       THEN Upsert(progress, Head(queue), o.progress_rows[1]) ELSE progress
        /\ last' = [called |-> TRUE, db |-> db, human |-> human, result |-> o.result,
                    escaped |-> o.escaped, po_candidates |-> o.po_candidates,
                    amount_str |-> o.amount_str, ui_shown |-> o.ui_shown, exc |-> o.exc]
        /\ IF o.escaped
           THEN /\ pc' = "idle"
                /\ escaped' = TRUE
                /\ UNCHANGED <<queue, counts>>
           ELSE /\ pc' = "batch"
                /\ queue' = Tail(queue)
                /\ counts' = Count(counts, o.result.status)
                /\ UNCHANGED escaped

\* one turn of the loop: process_file_with_supplier on the next file of the
\* batch, until it returns or waits in the manual entry window. An
\* exception that leaves it ends process_batch_improved.
ProcessNext ==
    LET
        \* src/ziterate.py:979-1098
        NoHuman == [save |-> FALSE, po |-> "", amount |-> "", check |-> "", receiver |-> ""]

        \* src/ziterate.py:1217-1218
        DocIndex(filename) == CHOOSE i \in 1..Len(Docs) : Docs[i].filename = filename
    IN
        /\ pc = "batch"
        /\ queue # << >>
        /\ LET doc == DocOf(Head(queue))
               found == extracted[DocIndex(Head(queue))]
           IN  \E db \in DbModes :
                 \E step \in process_file_with_supplier(doc, found.po_runs, found.amount_str, db) :
                    IF step.parked
                    THEN /\ pc' = "manual"
                         /\ open' = step
                         /\ UNCHANGED <<ledger, progress, queue, counts, last, escaped>>
                    ELSE /\ Returned(step.outcome, db, NoHuman)
                         /\ UNCHANGED open
        /\ UNCHANGED <<po_profiles, extracted, files_saved, arg, ret, Side>>

\* the person closes the manual entry window (Save & Continue or Skip File)
\* and the call runs to its end
ManualEntryClosed ==
    LET
        \* src/ziterate.py:979-1098
        HumanInputs ==
            LET
                \* src/ziterate.py:979-1098
                HumanReceiver == {""}

                \* src/ziterate.py:979-1098
                HumanCheck == {"", "1001"}

                \* src/ziterate.py:979-1098
                HumanAmount == {"", "12.50"}

                \* src/ziterate.py:979-1098
                HumanPo == {Keep, "40999"}
            IN
                { [save |-> FALSE, po |-> "", amount |-> "", check |-> "", receiver |-> ""] } \cup
                [save : {TRUE}, po : HumanPo, amount : HumanAmount, check : HumanCheck,
                 receiver : HumanReceiver]
    IN
        /\ pc = "manual"
        /\ \E db \in DbModes, human \in HumanInputs :
              \E outcome \in {process_file_after_entry(open, db, human)} :
                 Returned(outcome, db, human)
        /\ open' = [parked |-> FALSE]
        /\ UNCHANGED <<po_profiles, extracted, files_saved, arg, ret, Side>>

\* the loop is over: process_batch_improved returns the counts and its
\* locals are gone
BatchEnd ==
    /\ pc = "batch"
    /\ queue = << >>
    /\ pc' = "idle"
    /\ counts' = ZeroCounts
    /\ last' = NoCall
    /\ UNCHANGED <<ledger, progress, po_profiles, extracted, queue, escaped, open,
                   files_saved, arg, ret, Side>>

\* DocumentProcessor.save_record for the loaded file: save_extraction_result
\* is called without status, which is then its default 'pending'; a store
\* failure is shown in a message box and changes nothing.
SaveRecord(filename, data, db_ok) ==
    /\ files_saved < MaxSaved
    /\ Truthy(data.supplier_code)
    /\ IF db_ok
       THEN /\ ledger' = Upsert(ledger, filename,
                                [supplier_code |-> data.supplier_code,
                                 po_number |-> data.po_number,
                                 amount |-> ParseFloat(data.amount),
                                 check_no |-> data.check_no, receiver_id |-> data.receiver_id,
                                 invoice_no |-> None, human_field |-> "Y", status |-> "pending"])
            /\ files_saved' = files_saved + 1
       ELSE UNCHANGED <<ledger, files_saved>>
    /\ UNCHANGED <<progress, po_profiles, extracted, pc, queue, counts, last, escaped, open, arg, ret, Side>>

Next ==
    LET
        \* the files the person loads in the DocumentProcessor window
        \* src/document_processor.py:469-513
        FormFiles == {"2024-03_ACME1_invoice.pdf", "2024-04_ACME1_zero.pdf"}

        \* What the person has in the form of the Document Processor when pressing
        \* Save Record
        \* src/document_processor.py:469-513
        FormInputs == { [supplier_code |-> "ACME1", po_number |-> "40777", amount |-> "9.99",
                         check_no |-> "", receiver_id |-> ""] }
    IN
        \/ \E batch_size \in 1..MaxBatch : BatchStart(batch_size)
        \/ ProcessNext
        \/ ManualEntryClosed
        \/ BatchEnd
        \/ \E filename \in FormFiles, data \in FormInputs, db_ok \in BOOLEAN :
              SaveRecord(filename, data, db_ok)

Spec == Init /\ [][Next]_vars

(***************************************************************************)
(* The functions on their own: the inputs are drawn in Init and one action *)
(* applies the function.                                                   *)
(***************************************************************************)
BatchIdle ==
    /\ ledger = NoRows
    /\ progress = NoRows
    /\ po_profiles = StoredPoProfiles
    /\ extracted = << >>
    /\ pc = "idle"
    /\ queue = << >>
    /\ counts = ZeroCounts
    /\ last = NoCall
    /\ escaped = FALSE
    /\ open = [parked |-> FALSE]
    /\ files_saved = 0

Idle == BatchIdle /\ SideIdle

Batch == <<ledger, progress, po_profiles, extracted, pc, queue, counts, last, escaped, open,
           files_saved>>

Rest == <<Batch, Side>>

\* --- extract_po_with_supplier_profile ---
MaxFrags == 2

RECURSIVE PoTexts(_)
PoTexts(n) ==
    LET
        \* src/ziterate.py:188-320
        PoFragments == {"PO# 0040676-00", "972-5590 0040702-00", "Ref 40999", "PO: 40085", "Ref n/a",
                        "PO: 40085-05"}
    IN
        IF n = 0 THEN {""}
        ELSE PoTexts(n - 1) \cup
             { (IF t = "" THEN "" ELSE t \o " ") \o f : t \in PoTexts(n - 1), f \in PoFragments }

InitPo ==
    LET
        \* src/ziterate.py:188-320
        PoSuppliers == {"BLAN1", "ASSP01", "ELAD01", "ACME1"}

        \* src/db.py:135-156
        PoProfileChoices ==
            LET
                \* table po_profiles: empty, or the label "Ref" stored for every supplier
                \* src/db.py:135-156
                RefProfiles == [c \in PoSuppliers |-> [po_patterns |-> <<"Ref">>, amount_patterns |-> << >>]]
            IN
                {NoRows, RefProfiles}
    IN
        /\ Idle
        /\ arg \in [fn : {"extract_po_with_supplier_profile"}, text : PoTexts(MaxFrags),
                    supplier : PoSuppliers, profiles : PoProfileChoices]
        /\ ret = NoArg

CallExtractPo ==
    /\ arg.fn = "extract_po_with_supplier_profile"
    /\ ret = NoArg
    /\ \E run \in extract_po_with_supplier_profile(arg.text, arg.supplier, arg.profiles) :
          ret' = [fn |-> arg.fn, raised |-> run.raised, list |-> run.list,
                  specific |-> run.specific, generic_ran |-> run.generic_ran]
    /\ UNCHANGED <<Rest, arg>>

SpecPo == InitPo /\ [][CallExtractPo]_vars

\* --- the three places that validate and normalise a raw PO string ---
MinRawLen == 4

MaxRawLen == 7

RECURSIVE DigitStrings(_)
DigitStrings(n) ==
    LET
        \* src/ziterate.py:926-928
        RawDigits == {"0", "4"}
    IN
        IF n = 0 THEN {""} ELSE { c \o t : c \in RawDigits, t \in DigitStrings(n - 1) }

InitCanon ==
    LET
        \* src/ziterate.py:926-928
        RawEntries ==
            LET
                \* src/ziterate.py:926-928
                RawSuffixes == {"", "-05", "-5"}
            IN
                { m \o x : m \in UNION { DigitStrings(n) : n \in MinRawLen..MaxRawLen }, x \in RawSuffixes }
                \cup {"0040085-05", "40085-05", "0040085", "40085", "123456", "4008", "ABCDE"}

        \* what precedes the raw string in a document text
        \* src/ziterate.py:83-111
        RawPrefixes == {"", "PO# "}
    IN
        /\ Idle
        /\ \/ arg \in [fn : {"confirm_manual", "extract_po_from_location"}, raw : RawEntries]
           \/ arg \in [fn : {"extract_po_number"}, raw : RawEntries, prefix : RawPrefixes]
        /\ ret = NoArg

\* the person types raw in the manual field of POConfirmationUI and presses
\* the confirm button
CallConfirmManual ==
    /\ arg.fn = "confirm_manual"
    /\ ret = NoArg
    /\ ret' = [fn |-> arg.fn, po |-> confirm_manual(arg.raw), again |-> FALSE]
    /\ UNCHANGED <<Rest, arg>>

\* OCR reads raw in the PO box
CallLocationPO ==
    /\ arg.fn = "extract_po_from_location"
    /\ ret = NoArg
    /\ ret' = [fn |-> arg.fn, po |-> LocationPO(arg.raw), again |-> FALSE]
    /\ UNCHANGED <<Rest, arg>>

\* the document text is raw, after the prefix
CallExtractPoNumber ==
    /\ arg.fn = "extract_po_number"
    /\ ret = NoArg
    /\ \E l \in extract_po_number(arg.prefix \o arg.raw) :
          ret' = [fn |-> arg.fn, list |-> l, again |-> FALSE]
    /\ UNCHANGED <<Rest, arg>>

\* the same place is given its own output
CallAgain ==
    /\ ret # NoArg
    /\ ~ret.again
    /\ \/ /\ ret.fn = "confirm_manual"
          /\ ret.po # None
          /\ ret' = [ret EXCEPT !.again = TRUE] @@ [po2 |-> confirm_manual(ret.po)]
       \/ /\ ret.fn = "extract_po_from_location"
          /\ ret.po # None
          /\ ret' = [ret EXCEPT !.again = TRUE] @@ [po2 |-> LocationPO(ret.po)]
       \/ /\ ret.fn = "extract_po_number"
          /\ Len(ret.list) = 1
          /\ \E l \in extract_po_number(arg.prefix \o ret.list[1]) :
                ret' = [ret EXCEPT !.again = TRUE] @@ [list2 |-> l]
    /\ UNCHANGED <<Rest, arg>>

NextCanon == CallConfirmManual \/ CallLocationPO \/ CallExtractPoNumber \/ CallAgain

SpecCanon == InitCanon /\ [][NextCanon]_vars

(***************************************************************************)
(* classifier.py: classify_invoice                                         *)
(***************************************************************************)
\* Similarity scores are held in hundredths (0.3 is 30). The scores are what
\* sklearn's cosine_similarity returns for the query against each sample.
ThresholdPct == 30

MaxSamples == 2

\* train_supplier_profiles: the labels in enumeration order, and with them
\* the score of each sample vector
RECURSIVE train_supplier_profiles(_, _)
train_supplier_profiles(profiles, k) ==
    IF k > Len(profiles) THEN [labels |-> << >>, scores |-> << >>]
    ELSE LET Join(rest) ==
                 [labels |-> [i \in 1..Len(profiles[k].scores) |-> profiles[k].supplier]
                             \o rest.labels,
                  scores |-> profiles[k].scores \o rest.scores]
         IN  Join(train_supplier_profiles(profiles, k + 1))

\* an argmax that returns the last index of the maximum
ArgMaxLast(scores) ==
    CHOOSE i \in 1..Len(scores) :
        /\ \A j \in 1..Len(scores) : scores[j] <= scores[i]
        /\ \A j \in (i + 1)..Len(scores) : scores[j] < scores[i]

\* numpy argmax: the first index of the maximum
ArgMax(scores) ==
    CHOOSE i \in 1..Len(scores) :
        /\ \A j \in 1..Len(scores) : scores[j] <= scores[i]
        /\ \A j \in 1..(i - 1) : scores[j] < scores[i]

\* classify_invoice: (best_supplier, best_score)
classify_invoice(scores, sample_labels, threshold) ==
    LET Best(best_index) ==
            [supplier |-> IF scores[best_index] >= threshold THEN sample_labels[best_index]
                          ELSE "UNKNOWN",
             score |-> scores[best_index]]
    IN  Best(ArgMax(scores))

InitClassify ==
    LET
        \* profiles (a dict, iterated in insertion order) as the list of its items
        \* src/classifier.py:43-52
        ProfileLists ==
            LET
                \* the samples of one supplier, each with its score against the query
                \* src/classifier.py:65-67
                SampleScores ==
                    LET
                        \* src/classifier.py:65-67
                        ScoreValues == {0, 29, 30, 31}
                    IN
                        UNION { [1..n -> ScoreValues] : n \in 1..MaxSamples }

                \* src/classifier.py:43-52
                ClassSuppliers == {"ACME1", "BLAN1"}
            IN
                { << [supplier |-> a, scores |-> x] >> : a \in ClassSuppliers, x \in SampleScores } \cup
                { p \in { << [supplier |-> a, scores |-> x], [supplier |-> b, scores |-> y] >> :
                             a \in ClassSuppliers, b \in ClassSuppliers,
                             x \in SampleScores, y \in SampleScores } :
                    p[1].supplier # p[2].supplier }
    IN
        /\ Idle
        /\ arg \in [fn : {"classify_invoice"}, profiles : ProfileLists]
        /\ ret = NoArg

CallClassify ==
    /\ arg.fn = "classify_invoice"
    /\ ret = NoArg
    /\ LET Classify(trained) ==
               classify_invoice(trained.scores, trained.labels, ThresholdPct)
                   @@ [fn |-> arg.fn, labels |-> trained.labels, scores |-> trained.scores]
       IN  ret' = Classify(train_supplier_profiles(arg.profiles, 1))
    /\ UNCHANGED <<Rest, arg>>

SpecClassify == InitClassify /\ [][CallClassify]_vars

(***************************************************************************)
(* classifier.py: extract_invoice_date                                     *)
(***************************************************************************)

\* \d{1,2}/\d{1,2}/\d{4}
SlashDate == Cat(<<Rep(D, 1, 2), Lit("/"), Rep(D, 1, 2), Lit("/"), Rep(D, 4, 4)>>)

DATE_PATTERNS ==
    LET
        \* ([^\n]+)
        \* src/config.py:42-60
        RestOfLine ==
            LET
                \* [^...] : a character outside the set
                \* src/classifier.py:91-95
                NCls(c) == [t |-> "ncls", c |-> c]
            IN
                Grp(Plus(NCls({"\n"})))

        \* [:\s]*
        \* src/config.py:42-60
        ColonSpace == Star(Cls(Space \cup {":"}))

        \* [\s\-\.]*
        \* src/config.py:42-60
        LabelSep == Star(Cls(Space \cup {"-", "."}))

        \* src/config.py:42-60
        LabelledDate(words) ==
            Cat([k \in 1..(2 * Len(words) + 1) |->
                    IF k = 2 * Len(words) + 1 THEN RestOfLine
                    ELSE IF k = 2 * Len(words) THEN ColonSpace
                    ELSE IF k % 2 = 1 THEN Lit(words[(k + 1) \div 2])
                    ELSE LabelSep])

        \* src/config.py:42-60
        Letters == LowerLetters \cup UpperLetters
    IN
                     <<
        LabelledDate(<<"BILLING", "DATE">>),
        LabelledDate(<<"BILL", "DATE">>),
        LabelledDate(<<"INVOICE", "DATE">>),
        LabelledDate(<<"STATEMENT", "DATE">>),
        Cat(<<Lit("ACCOUNT"), Plus(S), Lit("SUMMARY"), Plus(S), Lit("AS"), Plus(S), Lit("OF"),
              ColonSpace, RestOfLine>>),
        Cat(<<Lit("COMMERCIAL"), Plus(S), Grp(SlashDate)>>),
        Cat(<<Lit("through"), LabelSep,
              Grp(Cat(<<Rep(Cls(Letters), 3, 3), Plus(S), Rep(D, 1, 2), Opt(Lit(",")), Plus(S),
                        Rep(D, 4, 4)>>))>>),
        LabelledDate(<<"CHARGE", "IF", "PAID", "BY">>),
        LabelledDate(<<"DUE", "DATE">>) >>

\* a format as its directives and literal pieces
DATE_FORMATS == <<
    <<"%Y", "-", "%m", "-", "%d">>,
    <<"%m", "/", "%d", "/", "%Y">>,
    <<"%d", "-", "%b", "-", "%Y">>,
    <<"%b", " ", "%d", ",", " ", "%Y">>,
    <<"%b", " ", "%d", " ", "%Y">>,
    <<"%d", " ", "%b", " ", "%Y">>,
    <<"%d", " ", "%b", ",", " ", "%Y">>,
    <<"%B", " ", "%d", ",", " ", "%Y">>,
    <<"%B", " ", "%d", " ", "%Y">>,
    <<"%Y", "/", "%m", "/", "%d">>,
    <<"%m", "-", "%d", "-", "%Y">>,
    <<"%d", ".", "%m", ".", "%Y">> >>

\* datetime.strptime: the year and month; ok is FALSE for ValueError
strptime(s, fmt) ==
    LET
        \* src/classifier.py:126-126
        MonthAbbr == <<"jan", "feb", "mar", "apr", "may", "jun", "jul", "aug", "sep", "oct", "nov", "dec">>

        \* what a format's directive found in the string; None when the format does
        \* not match or leaves part of the string unread
        \* src/classifier.py:126-126
        Parsed(fmt2, which, s2) ==
            LET
                \* the expression strptime builds for one piece of a format
                \* src/classifier.py:126-126
                Directive(tok) ==
                    LET
                        \* src/classifier.py:126-126
                        NonZero == Cls(Digits \ {"0"})

                        \* the month names as the format's expression lists them, longest first
                        \* src/classifier.py:126-126
                        MonthNameByLength == <<"september", "february", "november", "december", "january", "october",
                                               "august", "march", "april", "june", "july", "may">>
                    IN
                        CASE tok = "%Y" -> Rep(D, 4, 4)
                          [] tok = "%m" -> Alt(<<Cat(<<Lit("1"), Cls({"0", "1", "2"})>>), Cat(<<Lit("0"), NonZero>>),
                                                 NonZero>>)
                          [] tok = "%d" -> Alt(<<Cat(<<Lit("3"), Cls({"0", "1"})>>), Cat(<<Cls({"1", "2"}), D>>),
                                                 Cat(<<Lit("0"), NonZero>>), NonZero, Cat(<<Lit(" "), NonZero>>)>>)
                          [] tok = "%b" -> Alt([k \in 1..12 |-> Lit(MonthAbbr[k])])
                          [] tok = "%B" -> Alt([k \in 1..12 |-> Lit(MonthNameByLength[k])])
                          [] tok = " " -> Plus(S)
                          [] OTHER -> Lit(tok)

                \* the expression of a format, with the group on the pieces in which
                \* src/classifier.py:126-126
                FormatRe(fmt1, which1) ==
                    Cat([k \in 1..Len(fmt1) |-> IF fmt1[k] \in which1 THEN Grp(Directive(fmt1[k]))
                                               ELSE Directive(fmt1[k])])
            IN
                LET Of(ways) == IF ways = << >> THEN None
                                ELSE IF ways[1].e # Len(s2) + 1 THEN None
                                ELSE Group1(s2, ways[1])
                IN  Of(ReMatch(FormatRe(fmt2, which), s2, 1))

        \* src/classifier.py:126-126
        DaysIn(y, m) ==
            LET
                \* src/classifier.py:126-126
                IsLeap(y1) == y1 % 4 = 0 /\ (y1 % 100 # 0 \/ y1 % 400 = 0)
            IN
                IF m = 2 THEN (IF IsLeap(y) THEN 29 ELSE 28)
                ELSE IF m \in {4, 6, 9, 11} THEN 30 ELSE 31

        \* src/classifier.py:126-126
        MonthOf(name) ==
            LET
                \* src/classifier.py:126-126
                MonthName == <<"january", "february", "march", "april", "may", "june", "july", "august",
                               "september", "october", "november", "december">>
            IN
                IF AllDigits(name) THEN IntOf(name)
                ELSE IF \E k \in 1..12 : Upper(MonthAbbr[k]) = Upper(name)
                THEN CHOOSE k \in 1..12 : Upper(MonthAbbr[k]) = Upper(name)
                ELSE CHOOSE k \in 1..12 : Upper(MonthName[k]) = Upper(name)
    IN
        LET Date(y, m, d) ==
                IF y = None THEN [ok |-> FALSE]
                ELSE IF IntOf(y) < 1 \/ IntOf(Strip(d)) > DaysIn(IntOf(y), MonthOf(m))
                THEN [ok |-> FALSE]
                ELSE [ok |-> TRUE, year |-> IntOf(y), month |-> MonthOf(m)]
        IN  Date(Parsed(fmt, {"%Y"}, s), Parsed(fmt, {"%m", "%b", "%B"}, s), Parsed(fmt, {"%d"}, s))

\* strftime("%Y-%m")
strftime(dt) ==
    ToString(dt.year) \o "-" \o (IF dt.month < 10 THEN "0" ELSE "") \o ToString(dt.month)

\* the first format that parses, formatted; None when none does
RECURSIVE TryFormats(_, _)
TryFormats(raw_date, k) ==
    IF k > Len(DATE_FORMATS) THEN None
    ELSE LET Try(dt) == IF dt.ok THEN strftime(dt) ELSE TryFormats(raw_date, k + 1)
         IN  Try(strptime(raw_date, DATE_FORMATS[k]))

\* re.sub of a pattern that matches no empty string
RECURSIVE ReSubFrom(_, _, _, _)
ReSubFrom(r, repl, s, i) ==
    LET
        \* re.search from position i on
        \* src/classifier.py:116-121
        ReSearchAt(r1, s1, i1) ==
            LET At(hits) == IF hits = {} THEN [pos |-> 0]
                            ELSE [pos |-> Least(hits), m |-> ReMatch(r1, s1, Least(hits))[1]]
            IN  At(Hits(r1, s1, i1))
    IN
        LET Sub(m) == IF m.pos = 0 THEN SubSeq(s, i, Len(s))
                      ELSE SubSeq(s, i, m.pos - 1) \o repl \o ReSubFrom(r, repl, s, m.m.e)
        IN  Sub(ReSearchAt(r, s, i))

ReSub(r, repl, s) == ReSubFrom(r, repl, s, 1)

ocr_fixes == <<
    <<"Ost", "Oct">>, <<"Des", "Dec">>, <<"Auy", "Aug">>, <<"Jan", "Jan">>, <<"Feb", "Feb">>,
    <<"Mar", "Mar">>, <<"Apr", "Apr">>, <<"May", "May">>, <<"Jun", "Jun">>, <<"Jul", "Jul">>,
    <<"Aug", "Aug">>, <<"Sep", "Sep">>, <<"Nov", "Nov">> >>

RECURSIVE ApplyFixes(_, _)

\* an ocr_fixes table that repairs nothing
ApplyNoFixes(raw_date, k) == raw_date

ApplyFixes(raw_date, k) ==
    IF raw_date = "" \/ k > Len(ocr_fixes) THEN raw_date
    ELSE ApplyFixes(ReSub(Cat(<<Wb, Lit(ocr_fixes[k][1]), Wb>>), ocr_fixes[k][2], raw_date), k + 1)

\* extract_invoice_date from pattern k on: the date and the pattern that gave it
RECURSIVE DateFrom(_, _)
DateFrom(text, k) ==
    LET
        \* the body of the loop for one pattern: the date it returns, None when the
        \* pattern does not match or no format parses what it captured
        \* src/classifier.py:82-131
        DateByPattern(text1, k1) ==
            LET
                \* src/classifier.py:91-97
                EmbeddedDate(raw_date) ==
                    LET
                        \* \b(\d{1,2}/\d{1,2}/\d{4}|\d{4}-\d{1,2}-\d{1,2}|\w{3,9}\s+\d{1,2},?\s+\d{4})\b
                        \* src/classifier.py:91-97
                        DateInText ==
                            Cat(<<Wb,
                                  Grp(Alt(<<SlashDate,
                                            Cat(<<Rep(D, 4, 4), Lit("-"), Rep(D, 1, 2), Lit("-"), Rep(D, 1, 2)>>),
                                            Cat(<<Rep(Cls(WordChars), 3, 9), Plus(S), Rep(D, 1, 2), Opt(Lit(",")),
                                                  Plus(S), Rep(D, 4, 4)>>)>>)),
                                  Wb>>)
                    IN
                        LET Take1(m) == IF m.pos = 0 THEN raw_date ELSE Strip(Group1(raw_date, m.m))
                        IN  Take1(ReSearch(DateInText, raw_date))

                \* re.sub(r",\s*-\s*", ", ", raw_date)
                \* src/classifier.py:121-121
                FixCommaDash(raw_date) ==
                    ReSub(Cat(<<Lit(","), Star(S), Lit("-"), Star(S)>>), ", ", raw_date)

                \* re.split(r"\s+Page\b", raw_date)[0]
                \* src/classifier.py:86-87
                BeforePage(raw_date) ==
                    LET Cut(m) == IF m.pos = 0 THEN raw_date ELSE SubSeq(raw_date, 1, m.pos - 1)
                    IN  Cut(ReSearch(Cat(<<Plus(S), Lit("Page"), Wb>>), raw_date))
            IN
                LET Parse(match) ==
                        IF match.pos = 0 THEN None
                        ELSE TryFormats(FixCommaDash(ApplyFixes(EmbeddedDate(
                                 Strip(BeforePage(Strip(Group1(text1, match.m))))), 1)), 1)
                IN  Parse(ReSearch(DATE_PATTERNS[k1], text1))
    IN
        IF k > Len(DATE_PATTERNS) THEN [date |-> None, pattern |-> 0]
        ELSE LET Ret(date) == IF date # None THEN [date |-> date, pattern |-> k]
                              ELSE DateFrom(text, k + 1)
             IN  Ret(DateByPattern(text, k))

extract_invoice_date(text) == DateFrom(text, 1)

MaxLines == 2

RECURSIVE DateTexts(_)
DateTexts(n) ==
    LET
        \* src/classifier.py:79-133
        DateLines == {
            "BILLING DATE: Ost 5, 2024",
            "Jun 2,-2025",
            "Invoice Date: Jun 2,-2025",
            "BILL DATE: see below",
            "DUE DATE 12/10/2024",
            "INVOICE-DATE 03/15/2024 Page 1 of 3",
            "Statement through SEP 30, 2024",
            "Total: $5.00" }
    IN
        IF n = 1 THEN DateLines
        ELSE DateTexts(n - 1) \cup { t \o "\n" \o l : t \in DateTexts(n - 1), l \in DateLines }

InitDate ==
    /\ Idle
    /\ arg \in [fn : {"extract_invoice_date"}, text : DateTexts(MaxLines)]
    /\ ret = NoArg

CallExtractDate ==
    /\ arg.fn = "extract_invoice_date"
    /\ ret = NoArg
    /\ LET Out(r) == [fn |-> arg.fn, date |-> r.date, pattern |-> r.pattern,
                      matched |-> { k \in 1..Len(DATE_PATTERNS) :
                                      ReSearch(DATE_PATTERNS[k], arg.text).pos # 0 }]
       IN  ret' = Out(extract_invoice_date(arg.text))
    /\ UNCHANGED <<Rest, arg>>

SpecDate == InitDate /\ [][CallExtractDate]_vars

(***************************************************************************)
(* extract_amount_from_text on texts put together from labelled amounts    *)
(***************************************************************************)
MaxAmountLines == 2

TotalFamily == {"Total", "Invoice Total", "Amount Due", "Amount", "Balance Due"}

RECURSIVE JoinLines(_, _)
JoinLines(parts, k) ==
    IF k > Len(parts) THEN ""
    ELSE parts[k].line \o (IF k < Len(parts) THEN "\n" ELSE "") \o JoinLines(parts, k + 1)

InitAmount ==
    LET
        \* src/ziterate.py:169-181
        AmountParts ==
            LET
                \* the lines a text is made of; label tells what the amount on it is
                \* labelled with
                \* src/ziterate.py:169-181
                AmountLines == {
                    [label |-> "Subtotal", line |-> "Subtotal: 5.00"],
                    [label |-> "Total", line |-> "Total: $6.00"],
                    [label |-> "Amount Due", line |-> "Amount Due 7.00"],
                    [label |-> "$", line |-> "$8.00"],
                    [label |-> "Net", line |-> "Net 9.00"],
                    [label |-> "", line |-> "Qty 3"] }
            IN
                UNION { [1..n -> AmountLines] : n \in 1..MaxAmountLines }

        \* a stored profile whose amount pattern is the expression Net\s*([0-9.]+)
        \* src/ziterate.py:143-166
        NetProfiles ==
            [PROF1 |-> [po_patterns |-> << >>,
                        amount_patterns |->
                            << [src |-> "Net\\s*([0-9.]+)", compiles |-> TRUE, groups |-> TRUE,
                                re |-> Cat(<<Lit("Net"), Star(S),
                                             Grp(Plus(Cls(Digits \cup {"."})))>>)] >>]]
    IN
        /\ Idle
        /\ arg \in [fn : {"extract_amount_from_text"}, parts : AmountParts,
                    supplier : {"ACME1", "PROF1"}, profiles : {NoRows, NetProfiles}]
        /\ ret = NoArg

CallExtractAmount ==
    /\ arg.fn = "extract_amount_from_text"
    /\ ret = NoArg
    /\ LET Out(text) ==
               [fn |-> arg.fn,
                text |-> text,
                amount |-> extract_amount_from_text(text, arg.supplier, arg.profiles),
                by_supplier |->
                    IF arg.supplier \in DOMAIN arg.profiles
                    THEN FirstSupplierAmount(arg.profiles[arg.supplier].amount_patterns, 1, text)
                    ELSE None]
       IN  ret' = Out(JoinLines(arg.parts, 1))
    /\ UNCHANGED <<Rest, arg>>

SpecAmount == InitAmount /\ [][CallExtractAmount]_vars

(***************************************************************************)
(* location_extraction: the location file and the extraction by box        *)
(***************************************************************************)

BoxKeys == {"po", "amount", "invoice"}

FullBox == [x0 |-> 10, y0 |-> 20, x1 |-> 110, y1 |-> 40, page |-> 0]

\* the truth value Python gives an Optional[Dict]
TruthyBox(box) == \E b \in box : DOMAIN b # {}

\* a guard that takes any dict for a box, the empty one too
AnyGiven(po_box, amount_box, invoice_box) ==
    po_box # {} \/ amount_box # {} \/ invoice_box # {}

\* any([po_box, amount_box, invoice_box])
AnyBox(po_box, amount_box, invoice_box) ==
    TruthyBox(po_box) \/ TruthyBox(amount_box) \/ TruthyBox(invoice_box)

\* add_supplier_location: the exception it raises ("" for none) and the
\* content of the location file afterwards
add_supplier_location(config, supplier_code, po_box, amount_box, invoice_box, write) ==
    LET
        \* config[supplier_code] as add_supplier_location builds it
        \* src/location_extraction/config.py:47-80
        SupplierEntry(po_box1, amount_box1, invoice_box1) ==
            LET
                \* src/location_extraction/config.py:47-80
                TheBox(box) == CHOOSE b \in box : TRUE
            IN
                [k \in {"po" : x \in {1} \cap (IF TruthyBox(po_box1) THEN {1} ELSE {})} \cup
                       {"amount" : x \in {1} \cap (IF TruthyBox(amount_box1) THEN {1} ELSE {})} \cup
                       {"invoice" : x \in {1} \cap (IF TruthyBox(invoice_box1) THEN {1} ELSE {})} |->
                    CASE k = "po" -> TheBox(po_box1)
                      [] k = "amount" -> TheBox(amount_box1)
                      [] k = "invoice" -> TheBox(invoice_box1)]
    IN
        IF ~AnyBox(po_box, amount_box, invoice_box)
        THEN [raised |-> "ValueError", config |-> config]
        ELSE IF write = "open" THEN [raised |-> "OSError", config |-> config]
        ELSE IF write = "dump" THEN [raised |-> "OSError", config |-> NoRows]
        ELSE [raised |-> "",
              config |-> [s \in DOMAIN config \cup {supplier_code} |->
                            IF s = supplier_code
                            THEN SupplierEntry(po_box, amount_box, invoice_box)
                            ELSE config[s]]]

\* a has_..._location that only asks whether the supplier has an entry
has_entry(config, supplier_code, key) == supplier_code \in DOMAIN config

\* has_po_location, has_amount_location, has_invoice_location
has_location(config, supplier_code, key) ==
    supplier_code \in DOMAIN config /\ key \in DOMAIN config[supplier_code]

\* extract_text_from_region: every exception inside is caught and gives ""
extract_text_from_region(machine, box) ==
    IF ~machine.tesseract THEN ""
    ELSE IF ~machine.render THEN ""
    ELSE IF (IF "page" \in DOMAIN box THEN box.page ELSE 0) >= 1 THEN ""
    ELSE Strip(machine.text)

\* extract_po_from_location, extract_amount_from_location and
\* extract_invoice_from_location for key "po", "amount" and "invoice": the
\* exception raised ("" for none), the value returned and the number of
\* calls of extract_text_from_region
extract_from_location(key, config, supplier_code, machine) ==
    LET
        \* extract_invoice_from_location on the text of the invoice box
        \* src/location_extraction/extractor.py:283-293
        LocationInvoice(text) ==
            LET Found(m) == IF m.pos = 0 THEN None
                            ELSE IF Strip(Group1(text, m.m)) = "" THEN None
                            ELSE Strip(Group1(text, m.m))
            IN  Found(ReSearch(Grp(Plus(Cls(UpperLetters \cup Digits \cup {"-"}))), Strip(text)))

        \* extract_amount_from_location on the text of the amount box
        \* src/location_extraction/extractor.py:193-207
        LocationAmount(text) ==
            LET Amt(amt) == IF ParseFloat(amt) # NoAmount THEN amt ELSE None
                Found(m) == IF m.pos = 0 THEN None
                            ELSE Amt(Strip(RemoveChars(Group1(text, m.m), {","})))
            IN  Found(ReSearch(Grp(Alt(<<Cat(<<Plus(Cls(Digits \cup {","})), Lit("."), Rep(D, 2, 2)>>),
                                          Plus(Cls(Digits \cup {","}))>>)), text))
    IN
        LET Clean(text) == [raised |-> "",
                            value |-> CASE key = "po" -> LocationPO(text)
                                        [] key = "amount" -> LocationAmount(text)
                                        [] key = "invoice" -> LocationInvoice(text),
                            region_calls |-> 1]
        IN  IF ~has_location(config, supplier_code, key)
            THEN [raised |-> "", value |-> None, region_calls |-> 0]
            ELSE IF supplier_code \notin DOMAIN config
            THEN [raised |-> "TypeError", value |-> None, region_calls |-> 0]
            ELSE IF key \notin DOMAIN config[supplier_code]
            THEN [raised |-> "KeyError", value |-> None, region_calls |-> 0]
            ELSE IF ~({"x0", "y0", "x1", "y1"} \subseteq DOMAIN config[supplier_code][key])
            THEN [raised |-> "KeyError", value |-> None, region_calls |-> 0]
            ELSE Clean(extract_text_from_region(machine, config[supplier_code][key]))

InitLocation ==
    /\ BatchIdle
    /\ location_mappings = NoRows
    /\ classification_samples = << >>
    /\ profile_file = NoFile
    /\ gui_profiles = << >>
    /\ extraction_results = [rows |-> << >>, seq |-> 0]
    /\ processor = [running |-> FALSE]
    /\ legacy = [running |-> FALSE]
    /\ arg = NoArg
    /\ ret = NoArg

AddSupplierLocation(supplier_code, po_box, amount_box, invoice_box, write) ==
    /\ LET Done1(r) ==
               /\ location_mappings' = r.config
               /\ ret' = [fn |-> "add_supplier_location", raised |-> r.raised]
       IN  Done1(add_supplier_location(location_mappings, supplier_code, po_box, amount_box,
                                       invoice_box, write))
    /\ arg' = [fn |-> "add_supplier_location", supplier_code |-> supplier_code,
               po_box |-> po_box, amount_box |-> amount_box, invoice_box |-> invoice_box]
    /\ UNCHANGED <<Batch, classification_samples, profile_file, gui_profiles,
                   extraction_results, processor, legacy>>

ExtractFromLocation(key, supplier_code, machine) ==
    /\ ret' = extract_from_location(key, location_mappings, supplier_code, machine)
                  @@ [fn |-> "extract_from_location"]
    /\ arg' = [fn |-> "extract_from_location", key |-> key, supplier_code |-> supplier_code,
               machine |-> machine]
    /\ UNCHANGED <<Batch, Side>>

NextLocation ==
    LET
        \* src/location_extraction/extractor.py:21-74
        Machines ==
            LET
                \* What the machine does for one call of extract_text_from_region:
                \* tesseract tells whether configure_tesseract finds the program, render
                \* whether fitz opens the file and renders the region, text is what OCR reads.
                \* src/location_extraction/extractor.py:21-74
                OcrTexts == {"INV-77 PO 0040123-00 due 1,234.56", ","}
            IN
                [tesseract : {TRUE}, render : {TRUE}, text : OcrTexts] \cup
                [tesseract : {FALSE}, render : {TRUE}, text : {"INV-77 PO 0040123-00 due 1,234.56"}] \cup
                [tesseract : {TRUE}, render : {FALSE}, text : {"INV-77 PO 0040123-00 due 1,234.56"}]

        \* how save_config's write ends: "ok"; "open" when open(CONFIG_FILE, "w")
        \* raises and the file stays as it was; "dump" when the write fails after the
        \* file was truncated, and load_config then gives {} for it
        \* src/location_extraction/config.py:41-44
        WriteEnds == {"ok", "open", "dump"}

        \* an Optional[Dict] argument that is None or a full box
        \* src/location_extraction/config.py:47-80
        GivenOrNone == { {}, {FullBox} }

        \* An Optional[Dict] argument is the empty set for None, else the set of the
        \* one dict given; {} is the dict << >>.
        \* src/location_extraction/config.py:47-80
        BoxArgs == { {}, {<< >>}, {FullBox} }

        \* src/location_extraction/config.py:47-80
        LocationSuppliers == {"ACME1", "PROF1"}
    IN
        \/ \E supplier_code \in LocationSuppliers, po_box \in BoxArgs, amount_box \in GivenOrNone,
              invoice_box \in GivenOrNone, write \in WriteEnds :
              AddSupplierLocation(supplier_code, po_box, amount_box, invoice_box, write)
        \/ \E key \in BoxKeys, supplier_code \in LocationSuppliers, machine \in Machines :
              ExtractFromLocation(key, supplier_code, machine)

SpecLocation == InitLocation /\ [][NextLocation]_vars

(***************************************************************************)
(* The classification samples: classifier.save_profiles and load_profiles, *)
(* the classifier window's add_samples, batch learn's save_selected        *)
(***************************************************************************)
MaxRows == 3

\* A profiles dict is the list of its items in insertion order, each a
\* supplier and its list of texts.
\* profiles.setdefault(supplier, []).append(text)
AppendSample(profiles, supplier, text) ==
    IF \E k \in 1..Len(profiles) : profiles[k].supplier = supplier
    THEN [k \in 1..Len(profiles) |->
            IF profiles[k].supplier = supplier
            THEN [profiles[k] EXCEPT !.texts = Append(@, text)]
            ELSE profiles[k]]
    ELSE Append(profiles, [supplier |-> supplier, texts |-> <<text>>])

\* len of all the lists of a profiles dict
RECURSIVE SampleCount(_, _)
SampleCount(profiles, k) ==
    IF k > Len(profiles) THEN 0 ELSE Len(profiles[k].texts) + SampleCount(profiles, k + 1)

\* get_classification_profiles: the rows of the table gathered by supplier
RECURSIVE get_classification_profiles(_, _)
get_classification_profiles(rows, n) ==
    IF n = 0 THEN << >>
    ELSE AppendSample(get_classification_profiles(rows, n - 1),
                      rows[n].supplier_code, rows[n].sample_text)

\* save_classification_profiles: DELETE FROM classification_samples, then
\* one row for each text of each supplier
RECURSIVE save_classification_profiles(_, _)
save_classification_profiles(profiles, k) ==
    IF k > Len(profiles) THEN << >>
    ELSE [i \in 1..Len(profiles[k].texts) |->
            [supplier_code |-> profiles[k].supplier, sample_text |-> profiles[k].texts[i]]]
         \o save_classification_profiles(profiles, k + 1)

\* add_classification_samples for one sample: a row is appended
add_classification_samples(rows, supplier, text) ==
    Append(rows, [supplier_code |-> supplier, sample_text |-> text])

\* save_profiles(samples): the exception raised ("" for none), the table and
\* the file afterwards. db_up tells whether SQLite can be used.
save_profiles(samples, db_up, rows, file, write) ==
    IF db_up
    THEN [raised |-> "", rows |-> save_classification_profiles(samples, 1), file |-> file]
    ELSE CASE write = "ok" ->
                [raised |-> "", rows |-> rows,
                 file |-> [exists |-> TRUE, kind |-> "json", content |-> samples]]
           [] write = "open" -> [raised |-> "OSError", rows |-> rows, file |-> file]
           [] OTHER ->
                [raised |-> "OSError", rows |-> rows,
                 file |-> [exists |-> TRUE, kind |-> write, content |-> << >>]]

\* load_profiles(): the exception raised ("" for none) and the dict returned.
\* readable tells whether PROFILE_PATH, if it exists, can be opened and read
\* as UTF-8; only json.JSONDecodeError is caught.
load_profiles(db_up, rows, file, readable) ==
    IF db_up THEN [raised |-> "", value |-> get_classification_profiles(rows, Len(rows))]
    ELSE IF ~file.exists THEN [raised |-> "", value |-> << >>]
    ELSE IF ~readable THEN [raised |-> "OSError", value |-> << >>]
    ELSE IF file.kind = "empty" THEN [raised |-> "", value |-> << >>]
    ELSE IF file.kind = "partial" THEN [raised |-> "", value |-> << >>]
    ELSE [raised |-> "", value |-> file.content]

InitSamples ==
    /\ BatchIdle
    /\ SideIdle
    /\ arg = NoArg
    /\ ret = NoArg

\* InvoiceClassifierApp.__init__: self.profiles = load_profiles()
GuiStart(db_up, readable) ==
    /\ LET Loaded(r) ==
               /\ gui_profiles' = (IF r.raised = "" THEN r.value ELSE << >>)
               /\ ret' = [fn |-> "load_profiles", raised |-> r.raised, value |-> r.value]
       IN  Loaded(load_profiles(db_up, classification_samples, profile_file, readable))
    /\ arg' = [fn |-> "load_profiles", db_up |-> db_up, readable |-> readable]
    /\ UNCHANGED <<Batch, location_mappings, classification_samples, profile_file,
                   extraction_results, processor, legacy>>

\* InvoiceClassifierApp.add_samples with one file selected
AddSamples(supplier, text, db_up, write) ==
    /\ SampleCount(gui_profiles, 1) < MaxRows
    /\ gui_profiles' = AppendSample(gui_profiles, supplier, text)
    /\ LET Saved(r) ==
               /\ classification_samples' = r.rows
               /\ profile_file' = r.file
               /\ ret' = [fn |-> "save_profiles", raised |-> r.raised]
       IN  Saved(save_profiles(AppendSample(gui_profiles, supplier, text), db_up,
                               classification_samples, profile_file, write))
    /\ arg' = [fn |-> "save_profiles", db_up |-> db_up, write |-> write]
    /\ UNCHANGED <<Batch, location_mappings, extraction_results, processor, legacy>>

\* open_batch_learn.save_selected with one text selected; the store is up
\* (with the store down the first call raises and nothing is written)
SaveSelected(supplier, text, db_up) ==
    /\ Len(classification_samples) < MaxRows
    /\ IF db_up
       THEN /\ classification_samples' =
                   add_classification_samples(classification_samples, supplier, text)
            /\ po_profiles' =
                   [s \in DOMAIN po_profiles \cup {supplier} |->
                      IF s \in DOMAIN po_profiles THEN po_profiles[s]
                      ELSE [po_patterns |-> << >>, amount_patterns |-> << >>]]
            /\ ret' = [fn |-> "add_classification_samples", raised |-> ""]
       ELSE /\ UNCHANGED <<classification_samples, po_profiles>>
            /\ ret' = [fn |-> "add_classification_samples", raised |-> "OperationalError"]
    /\ arg' = [fn |-> "add_classification_samples", db_up |-> db_up]
    /\ UNCHANGED <<ledger, progress, extracted, pc, queue, counts, last, escaped, open,
                   files_saved, location_mappings, profile_file, gui_profiles,
                   extraction_results, processor, legacy>>

NextSamples ==
    LET
        \* How the write of PROFILE_PATH ends: "ok"; "open" when open(..., "w")
        \* raises and the file stays as it was; "empty" and "partial" when the write
        \* fails after the file was truncated, with nothing or a part of the JSON
        \* text in it.
        \* src/classifier.py:14-22
        ProfileWriteEnds == {"ok", "open", "empty", "partial"}

        \* src/gui.py:89-98
        SampleTexts == {"invoice text"}

        \* src/gui.py:89-98
        SampleSuppliers == {"ACME1", "PROF1"}
    IN
        \/ \E db_up \in BOOLEAN, readable \in BOOLEAN : GuiStart(db_up, readable)
        \/ \E supplier \in SampleSuppliers, text \in SampleTexts, db_up \in BOOLEAN,
              write \in ProfileWriteEnds : AddSamples(supplier, text, db_up, write)
        \/ \E supplier \in SampleSuppliers, text \in SampleTexts, db_up \in BOOLEAN :
              SaveSelected(supplier, text, db_up)

SpecSamples == InitSamples /\ [][NextSamples]_vars

(***************************************************************************)
(* db.save_extraction_result on the rows of extraction_results             *)
(***************************************************************************)
MaxSaves == 3

\* INSERT without OR REPLACE into a table without the UNIQUE constraint
InsertPlain(table, row) ==
    [rows |-> Append(table.rows, [id |-> table.seq + 1] @@ row), seq |-> table.seq + 1]

\* INSERT OR REPLACE: filename is UNIQUE, so the row that has the filename is
\* deleted, and the new row gets the next id of the AUTOINCREMENT sequence
InsertOrReplace(table, row) ==
    [rows |-> Append(SelectSeq(table.rows, LAMBDA r : r.filename # row.filename),
                     [id |-> table.seq + 1] @@ row),
     seq |-> table.seq + 1]

\* save_extraction_result(filename, file_path, supplier_code, po_number,
\* amount, check_no, receiver_id, invoice_no, human_field, status)
save_extraction_result(table, call) ==
    InsertOrReplace(table,
        [filename |-> call.filename, file_path |-> call.file_path,
         supplier_code |-> call.supplier_code, po_number |-> call.po_number,
         amount |-> call.amount, check_no |-> call.check_no,
         receiver_id |-> call.receiver_id, invoice_no |-> call.invoice_no,
         human_field |-> call.human_field, status |-> call.status])

InitLedger ==
    /\ BatchIdle
    /\ SideIdle
    /\ arg = NoArg
    /\ ret = NoArg

SaveExtractionResult(call) ==
    /\ extraction_results.seq < MaxSaves
    /\ extraction_results' = save_extraction_result(extraction_results, call)
    /\ arg' = call
    /\ ret' = [fn |-> call.fn]
    /\ UNCHANGED <<Batch, location_mappings, classification_samples, profile_file,
                   gui_profiles, processor, legacy>>

NextLedger ==
    LET
        \* the calls: two files, the values the callers pass
        \* src/db.py:227-262
        SaveCalls ==
            [fn : {"save_extraction_result"},
             filename : {"2024-03_ACME1_invoice.pdf", "scan0001.pdf"},
             file_path : {"scans"},
             supplier_code : {"ACME1"},
             po_number : {None, "40123-00"},
             amount : {NoAmount, 250000},
             check_no : {None},
             receiver_id : {None},
             invoice_no : {None},
             human_field : {"N", "Y"},
             status : {"pending", "complete"}]
    IN
        \E call \in SaveCalls : SaveExtractionResult(call)

SpecLedger == InitLedger /\ [][NextLedger]_vars

(***************************************************************************)
(* document_processor.py: the DocumentProcessor window, and the batch flow *)
(* on the same folder                                                      *)
(***************************************************************************)
MaxEdits == 1

MaxCalls == 1

\* The PDFs of the folder the person opens (it is SCAN_DIRECTORY of the batch
\* flow too), in sorted order: the text extract_text gives, and what OCR reads in the PO box and the amount box
\* of the first page.
FolderDocs ==
    << [filename |-> "2024-03_ACME1_invoice.pdf", readable |-> TRUE,
        text |-> "PO# 0040123-00\nTotal: $2,500.00", po_box |-> "PO 0040777-00", amount_box |-> "1,234.56"],
       [filename |-> "2024-04_ACME1_blank.pdf", readable |-> TRUE,
        text |-> "Statement", po_box |-> "", amount_box |-> ""],
       [filename |-> "scan0001.pdf", readable |-> TRUE,
        text |-> "no labels here", po_box |-> "", amount_box |-> ""] >>

\* DocumentProcessor.load_document(filepath); a path is the file's name
load_document(self, filepath) ==
    LET doc == CHOOSE d \in {FolderDocs[i] : i \in 1..Len(FolderDocs)} : d.filename = filepath
        supplier_code == match_supplier_from_filename(filepath)
        s1 == [self EXCEPT !.current_pdf_path = filepath]
        s2 == [s1 EXCEPT !.extracted_data.filename = filepath, !.form_fields.filename = filepath]
    IN  IF ~doc.readable THEN s1
        ELSE IF supplier_code # None
        THEN [s2 EXCEPT !.current_supplier_code = supplier_code,
                        !.extracted_data.supplier_code = supplier_code,
                        !.form_fields.supplier_code = supplier_code]
        ELSE [s2 EXCEPT !.current_supplier_code = None]

\* DocumentProcessor.extract_data_from_pdf: the window afterwards and what the
\* call did (the values the location functions returned, whether the text
\* patterns were tried for the PO and for the amount)
extract_data_from_pdf(self, config) ==
    LET
        \* DocumentProcessor._extract_by_patterns(text, patterns)
        \* src/document_processor.py:429-454
        extract_by_patterns(text, patterns) ==
            LET Number == Cat(<<Opt(Lit("$")), Plus(Cls(Digits \cup {","})), Opt(Lit(".")), Star(D)>>)
                NoColon(line) == IF line # "" /\ Head(line) \in {":", "="}
                                 THEN Strip(Tail(line)) ELSE line
                Value(line, m) == IF m.pos = 0 THEN None ELSE SubSeq(line, m.pos, m.m.e - 1)
                InLine(line) == Value(line, ReSearch(Number, line))
                LineEnd(idx, nl) == IF nl = 0 THEN Len(text) ELSE nl - 1
                After(pattern, m) ==
                    IF m.pos = 0 THEN None
                    ELSE InLine(NoColon(Strip(SubSeq(text, m.pos + Len(pattern),
                                                     LineEnd(m.pos, IndexOf(text, "\n", m.pos))))))
                Tried == [k \in 1..Len(patterns) |->
                            After(patterns[k], ReSearch(Lit(Upper(patterns[k])), Upper(text)))]
                Hit == {k \in 1..Len(patterns) : Tried[k] # None}
            IN  IF Hit = {} THEN None ELSE Tried[Least(Hit)]
    IN
        LET SetBoth(s, field, value) ==
                IF Truthy(value)
                THEN [s EXCEPT !.extracted_data[field] = value, !.form_fields[field] = value]
                ELSE s
            Nothing == [self |-> self, ran |-> FALSE, failed |-> FALSE, location_po |-> None,
                        location_amount |-> None, region_calls |-> 0,
                        text_po_tried |-> FALSE, text_amount_tried |-> FALSE]
            Out(e, po, amount, po_missing, amount_missing, text_po, text_amount) ==
                [self |-> SetBoth(SetBoth(e, "po_number", text_po), "amount", text_amount),
                 ran |-> TRUE, failed |-> FALSE,
                 location_po |-> po.value, location_amount |-> amount.value,
                 region_calls |-> po.region_calls + amount.region_calls,
                 text_po_tried |-> po_missing, text_amount_tried |-> amount_missing]
            Missing(e, po, amount, text, po_missing, amount_missing) ==
                Out(e, po, amount, po_missing, amount_missing,
                    IF po_missing
                    THEN extract_by_patterns(text, <<"PO", "PO NO", "PO#", "Purchase Order">>)
                    ELSE None,
                    IF amount_missing
                    THEN extract_by_patterns(text, <<"Total", "Amount", "Invoice Total">>)
                    ELSE None)
            Texts(e, po, amount, text) ==
                Missing(e, po, amount, text,
                        e.extracted_data.po_number = "", e.extracted_data.amount = "")
            Located(po, amount, text) ==
                IF po.raised # ""
                THEN [Nothing EXCEPT !.ran = TRUE, !.failed = TRUE]
                ELSE IF amount.raised # ""
                THEN [Nothing EXCEPT !.self = SetBoth(self, "po_number", po.value),
                                     !.ran = TRUE, !.failed = TRUE, !.location_po = po.value,
                                     !.region_calls = po.region_calls]
                ELSE Texts(SetBoth(SetBoth(self, "po_number", po.value), "amount", amount.value),
                           po, amount, text)
            Machine(text) == [tesseract |-> TRUE, render |-> TRUE, text |-> text]
            OnDoc(doc, supplier_code) ==
                Located(extract_from_location("po", config, supplier_code, Machine(doc.po_box)),
                        extract_from_location("amount", config, supplier_code,
                                              Machine(doc.amount_box)),
                        doc.text)
        IN  IF self.current_pdf_path = None \/ self.extracted_data.supplier_code = ""
            THEN Nothing
            ELSE OnDoc(CHOOSE d \in {FolderDocs[i] : i \in 1..Len(FolderDocs)} :
                           d.filename = self.current_pdf_path,
                       self.extracted_data.supplier_code)


\* DocumentProcessor.next_document: the next file of the list that is not
\* saved yet is loaded; none left, or the last file reached, changes nothing
next_document(self) ==
    LET Unsaved == {i \in self.current_file_index + 1 .. Len(self.file_list) - 1 :
                      self.file_list[i + 1] \notin self.already_saved_files}
        Go(i) == load_document([self EXCEPT !.current_file_index = i], self.file_list[i + 1])
    IN  IF Unsaved = {} THEN self ELSE Go(Least(Unsaved))

InitProcessor ==
    LET
        \* location_mappings.json with a PO box and an amount box for ACME1
        \* src/location_extraction/config.py:27-38
        AcmeBoxes == [ACME1 |-> [po |-> FullBox, amount |-> FullBox]]

        \* DocumentProcessor.__init__: nothing loaded, every form field empty
        \* src/document_processor.py:38-64
        NewProcessor ==
            LET Blank == [filename |-> "", supplier_code |-> "", po_number |-> "", amount |-> "",
                          check_no |-> "", receiver_id |-> ""]
            IN  [running |-> TRUE, current_pdf_path |-> None, current_supplier_code |-> None,
                 extracted_data |-> Blank, form_fields |-> Blank, file_list |-> << >>,
                 current_file_index |-> 0, already_saved_files |-> {}, edits |-> 0]

        \* For each file of the folder, what the two extraction functions of
        \* the batch flow do on its text under the stored profiles.
        \* src/ziterate.py:1136-1150
        FolderExtracted(profiles) ==
            [i \in 1..Len(FolderDocs) |->
               LET supplier_code == match_supplier_from_filename(FolderDocs[i].filename)
               IN  [po_runs |-> extract_po_with_supplier_profile(FolderDocs[i].text, supplier_code, profiles),
                    amount_str |-> extract_amount_from_text(FolderDocs[i].text, supplier_code, profiles)]]
    IN
        /\ ledger = NoRows
        /\ progress = NoRows
        /\ po_profiles = StoredPoProfiles
        /\ extracted = FolderExtracted(po_profiles)
        /\ pc = "idle"
        /\ queue = << >>
        /\ counts = ZeroCounts
        /\ last = NoCall
        /\ escaped = FALSE
        /\ open = [parked |-> FALSE]
        /\ files_saved = 0
        /\ location_mappings \in {NoRows, AcmeBoxes}
        /\ classification_samples = << >>
        /\ profile_file = NoFile
        /\ gui_profiles = << >>
        /\ extraction_results = [rows |-> << >>, seq |-> 0]
        /\ processor = NewProcessor
        /\ legacy = [running |-> FALSE]
        /\ arg = NoArg
        /\ ret = NoArg

\* what no action of the window touches
ProcessorRest == <<progress, po_profiles, extracted, pc, queue, escaped, open, location_mappings,
                   classification_samples, profile_file, gui_profiles, extraction_results,
                   legacy>>

\* File > Open Folder: browse_folder on the folder
BrowseFolder ==
    LET file_list == [i \in 1..Len(FolderDocs) |-> FolderDocs[i].filename]
        already_saved == {FolderDocs[i].filename : i \in 1..Len(FolderDocs)} \cap DOMAIN ledger
        Listed(unsaved) ==
            LET s == [processor EXCEPT !.file_list = file_list,
                                       !.current_file_index = IF unsaved = {} THEN 0
                                                              ELSE Least(unsaved) - 1,
                                       !.already_saved_files = already_saved]
            IN  IF unsaved = {} THEN s ELSE load_document(s, file_list[Least(unsaved)])
    IN
        /\ processor' = Listed({i \in 1..Len(file_list) : file_list[i] \notin already_saved})
        /\ files_saved' = Cardinality(already_saved)
        /\ ret' = NoArg
        /\ UNCHANGED <<ledger, counts, last, arg, ProcessorRest>>

\* the Next button
NextDocument ==
    /\ processor.file_list # << >>
    /\ processor' = next_document(processor)
    /\ ret' = NoArg
    /\ UNCHANGED <<ledger, counts, last, files_saved, arg, ProcessorRest>>

\* the Previous button: previous_document
PreviousDocument ==
    /\ processor.file_list # << >>
    /\ processor.current_file_index > 0
    /\ processor' = load_document([processor EXCEPT !.current_file_index = @ - 1],
                                  processor.file_list[processor.current_file_index])
    /\ ret' = NoArg
    /\ UNCHANGED <<ledger, counts, last, files_saved, arg, ProcessorRest>>

\* the Extract Data button; ret is what the call just made did
ExtractData ==
    LET Show(r) == /\ processor' = r.self
                   /\ ret' = [fn |-> "extract_data_from_pdf"] @@ r
    IN
        /\ Show(extract_data_from_pdf(processor, location_mappings))
        /\ UNCHANGED <<ledger, counts, last, files_saved, arg, ProcessorRest>>

\* the person types in an editable field of the form
EditForm(field, value) ==
    /\ processor.edits < MaxEdits
    /\ processor.form_fields[field] # value
    /\ processor' = [processor EXCEPT !.form_fields[field] = value, !.edits = @ + 1]
    /\ ret' = NoArg
    /\ UNCHANGED <<ledger, counts, last, files_saved, arg, ProcessorRest>>

\* the Clear Form button: clear_form empties the editable fields of the form
\* and puts the supplier code of the file name back
ClearForm ==
    /\ processor' = [processor EXCEPT
                        !.form_fields = [f \in DOMAIN @ |->
                            IF f = "filename" THEN @[f]
                            ELSE IF f = "supplier_code" /\ Truthy(processor.current_supplier_code)
                            THEN processor.current_supplier_code
                            ELSE ""]]
    /\ ret' = NoArg
    /\ UNCHANGED <<ledger, counts, last, files_saved, arg, ProcessorRest>>

\* the Save Record button: save_record stores the form under the file name
\* of the form and goes on to the next unsaved file
SaveRecordPressed ==
    LET data == processor.form_fields
        marked == [processor EXCEPT !.already_saved_files = @ \cup {processor.current_pdf_path}]
    IN
        /\ files_saved < MaxSaved
        /\ processor.current_pdf_path # None
        /\ Truthy(data.supplier_code)
        /\ ledger' = Upsert(ledger, data.filename,
                            [supplier_code |-> data.supplier_code,
                             po_number |-> data.po_number,
                             amount |-> ParseFloat(data.amount),
                             check_no |-> data.check_no, receiver_id |-> data.receiver_id,
                             invoice_no |-> None, human_field |-> "Y", status |-> "pending"])
        /\ files_saved' = files_saved + 1
        /\ processor' = IF processor.file_list # << >> THEN next_document(marked) ELSE marked
        /\ ret' = NoArg
        /\ UNCHANGED <<counts, last, arg, ProcessorRest>>

\* the batch flow on file i of the folder: process_file_with_supplier with
\* the store up, the manual entry window (when it opens) closed by the person
BatchFile(i, human) ==
    LET doc == FolderDocs[i]
        NoHuman == [save |-> FALSE, po |-> "", amount |-> "", check |-> "", receiver |-> ""]
        Returns(o, who) ==
            /\ ledger' = IF o.ledger_rows # << >>
                         THEN Upsert(ledger, doc.filename, o.ledger_rows[1]) ELSE ledger
            /\ last' = [called |-> TRUE, db |-> "up", human |-> who, result |-> o.result,
                        escaped |-> o.escaped, po_candidates |-> o.po_candidates,
                        amount_str |-> o.amount_str, ui_shown |-> o.ui_shown, exc |-> o.exc]
    IN
        /\ counts.processed < MaxCalls
        /\ \E step \in process_file_with_supplier(doc, extracted[i].po_runs,
                                                   extracted[i].amount_str, "up") :
              IF step.parked
              THEN Returns(process_file_after_entry(step, "up", human), human)
              ELSE human = NoHuman /\ Returns(step.outcome, NoHuman)
        /\ counts' = [counts EXCEPT !.processed = @ + 1]
        /\ ret' = NoArg
        /\ UNCHANGED <<processor, files_saved, arg, ProcessorRest>>

NextProcessor ==
    LET
        \* what the person types in a field of the form
        \* src/document_processor.py:133-162
        Typed == { <<"po_number", "40999">>, <<"amount", "9.99">>, <<"supplier_code", "ACME1">> }

        \* what the person does in the manual entry window of the batch flow
        \* src/ziterate.py:979-1098
        Entered == { [save |-> FALSE, po |-> "", amount |-> "", check |-> "", receiver |-> ""],
                     [save |-> TRUE, po |-> Keep, amount |-> "12.50", check |-> "",
                      receiver |-> ""] }
    IN
        \/ BrowseFolder
        \/ NextDocument
        \/ PreviousDocument
        \/ ExtractData
        \/ \E t \in Typed : EditForm(t[1], t[2])
        \/ ClearForm
        \/ SaveRecordPressed
        \/ \E i \in 1..Len(FolderDocs), human \in Entered : BatchFile(i, human)

SpecProcessor == InitProcessor /\ [][NextProcessor]_vars

(***************************************************************************)
(* ziterate.py: the legacy loop, run_processing_loop with process_batch    *)
(***************************************************************************)
\* The PDFs of SCAN_DIRECTORY for the legacy loop, in sorted order
LegacyDocs ==
    << [filename |-> "a_broken.pdf", readable |-> FALSE, text |-> ""],
       [filename |-> "b_invoice.pdf", readable |-> TRUE, text |-> "PO# 0040123-00"],
       [filename |-> "c_letter.pdf", readable |-> TRUE, text |-> "Statement"],
       [filename |-> "d_invoice.pdf", readable |-> TRUE, text |-> "PO: 40085"] >>

\* get_status() on the content of the progress file and the results file
get_status(progress1, results) ==
    [total_files |-> Len(LegacyDocs),
     completed |-> Len(progress1.completed),
     failed |-> Len(progress1.failed),
     remaining |-> Len(LegacyDocs) - Len(progress1.completed) - Len(progress1.failed),
     po_found_count |-> Cardinality({f \in DOMAIN results : Truthy(results[f].po_number)})]

InitLegacy ==
    /\ BatchIdle
    /\ location_mappings = NoRows
    /\ classification_samples = << >>
    /\ profile_file = NoFile
    /\ gui_profiles = << >>
    /\ extraction_results = [rows |-> << >>, seq |-> 0]
    /\ processor = [running |-> FALSE]
    /\ legacy \in [running : {TRUE}, use_ui : BOOLEAN, pc : {"top"},
                   progress_file : {[completed |-> << >>, failed |-> << >>]},
                   results_file : {NoRows},
                   progress : {[completed |-> << >>, failed |-> << >>]},
                   results : {NoRows}, batch : {<< >>}, status : {NoArg},
                   reported : {FALSE}]
    /\ arg = NoArg
    /\ ret = NoArg

\* the top of the while loop of run_processing_loop: get_status, then either
\* process_batch up to its first file, or the report that all files have
\* been processed
LoopTop ==
    LET status == get_status(legacy.progress_file, legacy.results_file)
        \* process_batch(batch_size, with_confirmation=use_ui) up to the for loop
        Started(batch_size, files_to_process) ==
            IF files_to_process = << >>
            THEN [legacy EXCEPT !.pc = "ask", !.status = status, !.reported = TRUE]
            ELSE [legacy EXCEPT !.pc = "batch", !.status = status,
                                !.progress = legacy.progress_file,
                                !.results = legacy.results_file,
                                !.batch = SubSeq(files_to_process, 1,
                                                 IF batch_size < Len(files_to_process)
                                                 THEN batch_size ELSE Len(files_to_process))]
        Names == [i \in 1..Len(LegacyDocs) |-> LegacyDocs[i].filename]
    IN
        /\ legacy.pc = "top"
        /\ legacy' = IF status.remaining > 0
                     THEN Started(IF status.remaining < 10 THEN status.remaining ELSE 10,
                                  SelectSeq(Names, LAMBDA f :
                                      \A k \in 1..Len(legacy.progress_file.completed) :
                                          legacy.progress_file.completed[k] # f))
                     ELSE [legacy EXCEPT !.pc = "done", !.status = status, !.reported = TRUE]
        /\ UNCHANGED <<Batch, location_mappings, classification_samples, profile_file,
                       gui_profiles, extraction_results, processor, arg, ret>>

\* one turn of the for loop of process_batch on the next file of the batch;
\* ui is the button that closes POConfirmationUI when the window is shown
\* (confirm_manual with the PO 40999 typed). After
\* the last turn, or after Skip Remaining, the two files are written.
LegacyFile(ui) ==
    LET filename == Head(legacy.batch)
        doc == CHOOSE d \in {LegacyDocs[i] : i \in 1..Len(LegacyDocs)} : d.filename = filename
        Stored(po_candidates, confirmed_po) ==
            [po_number |-> confirmed_po, amount |-> None, check_no |-> None,
             receiver_id |-> None, candidates |-> po_candidates,
             human_review |-> IF Truthy(confirmed_po) THEN "Y" ELSE "N",
             status |-> IF Truthy(confirmed_po) THEN "confirmed" ELSE "no_po_found"]
        Failed == [po_number |-> None, amount |-> None, check_no |-> None,
                   receiver_id |-> None, human_review |-> "N", status |-> "error",
                   error |-> "extract_text"]
        Done(l) == [l EXCEPT !.progress.completed = Append(@, filename)]
        \* the end of the turn: the loop goes on, or it is over and
        \* save_progress and save_results write the files
        Turn(l, stop) ==
            IF stop \/ Tail(legacy.batch) = << >>
            THEN [l EXCEPT !.batch = << >>, !.pc = "ask",
                           !.progress_file = l.progress, !.results_file = l.results]
            ELSE [l EXCEPT !.batch = Tail(legacy.batch)]
        With(f, r) == [g \in DOMAIN legacy.results \cup {f} |->
                         IF g = f THEN r ELSE legacy.results[g]]
    IN
        /\ legacy.pc = "batch"
        /\ IF ~doc.readable
           THEN /\ ui = "none"
                /\ legacy' = Turn([legacy EXCEPT
                                     !.progress.failed =
                                         Append(@, [filename |-> filename, error |-> "extract_text"]),
                                     !.results = With(filename, Failed)], FALSE)
           ELSE \E po_candidates \in extract_po_number(doc.text) :
                  IF ~legacy.use_ui
                  THEN /\ ui = "none"
                       /\ legacy' = Turn(Done([legacy EXCEPT !.results =
                                         With(filename,
                                              Stored(po_candidates,
                                                     IF po_candidates # << >>
                                                     THEN po_candidates[1] ELSE None))]), FALSE)
                  ELSE CASE ui = "skip_file" -> legacy' = Turn(Done(legacy), FALSE)
                         [] ui = "skip_remaining_batch" -> legacy' = Turn(Done(legacy), TRUE)
                         [] ui = "confirm_no_po" ->
                               legacy' = Turn(Done([legacy EXCEPT !.results =
                                              With(filename, Stored(po_candidates, None))]), FALSE)
                         [] ui = "confirm_po" ->
                               /\ po_candidates # << >>
                               /\ legacy' = Turn(Done([legacy EXCEPT !.results =
                                                 With(filename,
                                                      Stored(po_candidates, po_candidates[1]))]),
                                                 FALSE)
                         [] ui = "confirm_manual" ->
                               legacy' = Turn(Done([legacy EXCEPT !.results =
                                              With(filename, Stored(po_candidates, "40999"))]),
                                              FALSE)
                         [] OTHER -> FALSE
        /\ UNCHANGED <<Batch, location_mappings, classification_samples, profile_file,
                       gui_profiles, extraction_results, processor, arg, ret>>

\* the message box "Batch complete! Process another batch?"
AskContinue(continue_processing) ==
    /\ legacy.pc = "ask"
    /\ legacy' = [legacy EXCEPT !.pc = IF continue_processing THEN "top" ELSE "halted"]
    /\ UNCHANGED <<Batch, location_mappings, classification_samples, profile_file,
                   gui_profiles, extraction_results, processor, arg, ret>>

SpecLegacy ==
    InitLegacy /\ [][ \/ LoopTop
                      \/ \E ui \in {"none", "confirm_po", "confirm_manual", "confirm_no_po",
                                    "skip_file", "skip_remaining_batch"} : LegacyFile(ui)
                      \/ \E continue_processing \in BOOLEAN : AskContinue(continue_processing)
                    ]_vars

(***************************************************************************)
(* Properties                                                              *)
(***************************************************************************)
\* C1: when text acquisition and supplier derivation succeeded and nothing
\* raised, the status is complete exactly when automatic extraction produced
\* both a PO and an amount, whatever the amount; otherwise the manual entry
\* window was opened and the status is complete_manual when the person typed
\* a PO or an amount and incomplete when the person skipped.
C1_CompleteIffBothExtracted ==
    (last.called /\ last.exc = "none" /\ last.result.supplier # None) =>
        LET both == last.po_candidates # << >> /\ last.amount_str # None
            status == last.result.status
        IN  /\ (status = "complete") <=> both
            /\ ~both =>
                  /\ last.ui_shown
                  /\ status \in {"complete_manual", "incomplete"}
                  /\ ~last.human.save => status = "incomplete"
                  /\ (last.human.save /\ (last.human.po = "40999" \/ last.human.amount # ""))
                        => status = "complete_manual"

\* C2: whenever process_file_with_supplier returns for a filename, the
\* ledger holds a row for that filename with the returned status.
C2_ResultStoredOnReturn ==
    [][ (last' # last /\ last'.called /\ ~last'.escaped) =>
           /\ last'.result.filename \in DOMAIN ledger'
           /\ ledger'[last'.result.filename].status = last'.result.status ]_vars

\* C3: every file a batch run has selected has no stored row or a stored row
\* with status pending; a file with a stored status complete,
\* complete_manual, incomplete or error is in no batch.
C3_OnlyUnprocessedSelected ==
    \A i \in 1..Len(queue) :
        queue[i] \notin DOMAIN ledger \/ ledger[queue[i]].status = "pending"

\* C3 witness: a batch has just been selected while an earlier file is stored
\* as incomplete and left out, and a file stored as pending is selected.
C3_Witness ==
    /\ pc = "batch"
    /\ last = NoCall
    /\ \E f \in DOMAIN ledger :
          /\ ledger[f].status = "incomplete"
          /\ \A i \in 1..Len(queue) : queue[i] # f
    /\ \E i \in 1..Len(queue) :
          queue[i] \in DOMAIN ledger /\ ledger[queue[i]].status = "pending"

\* C4: a file whose processing ended in error because extract_text raised is
\* in no later batch.
C4_AcquisitionErrorNotRetried ==
    \A i \in 1..Len(queue) :
        ~ /\ queue[i] \in DOMAIN progress
          /\ progress[queue[i]].status = "error"
          /\ progress[queue[i]].notes = <<"Error: extract_text">>

\* C5: no exception leaves process_file_with_supplier, so no batch run is
\* cut short by the failure of one document.
C5_NoExceptionEscapes == ~escaped /\ (last.called => ~last.escaped)

\* C6: with the store up and no profile for ACME1, the document
\* 2024-03_ACME1_invoice.pdf with 'PO# 0040123-00' and 'Total: $2,500.00' is
\* processed to supplier ACME1, PO 40123-00, amount 2500.00, status complete.
C6_EndToEnd ==
    (last.called /\ last.db = "up" /\ last.result.filename = "2024-03_ACME1_invoice.pdf") =>
        /\ last.result.supplier = "ACME1"
        /\ last.result.po_number = "40123-00"
        /\ last.result.amount = 250000
        /\ last.result.status = "complete"

\* C7 as stated: for every supplier, when a supplier-specific rule matched,
\* the generic patterns are not run and the returned list holds the specific
\* matches only.
C7_SpecificSkipsGeneric ==
    (ret # NoArg /\ ~ret.raised /\ ret.specific # {}) =>
        /\ ~ret.generic_ran
        /\ { ret.list[i] : i \in 1..Len(ret.list) } = ret.specific

\* C7 amended: the same for every supplier other than ELAD01.
C7_SpecificSkipsGenericButElad01 ==
    (ret # NoArg /\ ~ret.raised /\ ret.specific # {} /\ arg.supplier # "ELAD01") =>
        /\ ~ret.generic_ran
        /\ { ret.list[i] : i \in 1..Len(ret.list) } = ret.specific

\* C7 witness: a profile label matched for a supplier other than ELAD01 in a
\* text where the generic patterns match another number.
C7_Witness ==
    /\ ret # NoArg
    /\ ~ret.raised
    /\ arg.supplier \notin {"ELAD01", "BLAN1", "ASSP01"}
    /\ ret.specific = {"40999"}
    /\ ret.list = <<"40999">>
    /\ PoMatchSet(arg.text) \ ret.specific # {}

\* C8: with the store up, a document whose text was read and whose supplier
\* was derived never ends in error: a pattern that finds no valid value
\* yields no value without raising.
C8_PatternMissIsNotError ==
    (last.called /\ last.db = "up" /\ last.result.supplier # None
        /\ DocOf(last.result.filename).readable) =>
        /\ last.exc = "none"
        /\ last.result.status \in {"complete", "complete_manual", "incomplete"}

\* C9 as stated: on every valid input the canonical output is a valid PO,
\* canonicalizing it again returns it unchanged, and a 00-prefixed 7-digit
\* input gives the same value as its 5-digit tail.
C9_CanonIdempotent ==
    LET raw == arg.raw
        seven == Len(raw) >= 7 /\ AllDigits(SubSeq(raw, 1, 7))
        tail == SubSeq(raw, 3, Len(raw))
    IN  (ret # NoArg /\ ValidPO(raw) /\ (arg.fn = "extract_po_number" => arg.prefix = "")) =>
            IF arg.fn = "extract_po_number"
            THEN /\ Len(ret.list) = 1
                 /\ ValidPO(ret.list[1])
                 /\ ret.again => ret.list2 = ret.list
                 /\ (seven /\ ~ret.again) => extract_po_number(tail) = {ret.list}
            ELSE /\ ret.po # None
                 /\ ValidPO(ret.po)
                 /\ ret.again => ret.po2 = ret.po
                 /\ seven => ret.po = (IF arg.fn = "confirm_manual" THEN confirm_manual(tail)
                                       ELSE LocationPO(tail))

\* C9 amended: on every valid input whose last five digits of the main part
\* do not begin with 0, the canonical output is those five digits with the
\* suffix kept, it is a valid PO, and canonicalizing it again returns it
\* unchanged; so a 00-prefixed 7-digit input and its 5-digit tail give the
\* same value.
C9_CanonIdempotentNoZeroTail ==
    LET raw == arg.raw
        seven == Len(raw) >= 7 /\ AllDigits(SubSeq(raw, 1, 7))
        canon == IF seven THEN SubSeq(raw, 3, Len(raw)) ELSE raw
    IN  (ret # NoArg /\ ValidPO(raw) /\ Ch(canon, 1) # "0"
            /\ (arg.fn = "extract_po_number" => arg.prefix = "")) =>
            IF arg.fn = "extract_po_number"
            THEN /\ ret.list = <<canon>>
                 /\ ret.again => ret.list2 = ret.list
            ELSE /\ ret.po = canon
                 /\ ValidPO(ret.po)
                 /\ ret.again => ret.po2 = ret.po

\* C9 witness: 0040040-05 was canonicalized to 40040-05 by confirm_manual and
\* canonicalized again.
C9_Witness ==
    /\ ret # NoArg
    /\ arg.fn = "confirm_manual"
    /\ arg.raw = "0040040-05"
    /\ ret.po = "40040-05"
    /\ ret.again
    /\ ret.po2 = "40040-05"

\* C10: confirm_manual and extract_po_number give a PO only for a raw string
\* of the valid shape, and then its canonical form; every other raw string
\* gives no PO, never a part of it.
C10_NoPartialValue ==
    (ret # NoArg /\ arg.fn \in {"confirm_manual", "extract_po_number"}) =>
        LET expected == IF ValidPO(arg.raw) THEN NormalizePO(arg.raw) ELSE None
        IN  IF arg.fn = "confirm_manual"
            THEN ret.po = expected
            ELSE \A i \in 1..Len(ret.list) : ret.list[i] = expected

\* C11: classify_invoice returns the label of the first sample, in training
\* order, whose score is the maximum, when that maximum is at least the
\* threshold, and UNKNOWN when the maximum is below the threshold.
C11_FirstMaxAtThreshold ==
    ret # NoArg =>
        \E i \in 1..Len(ret.scores) :
            /\ \A j \in 1..Len(ret.scores) : ret.scores[j] <= ret.scores[i]
            /\ \A j \in 1..(i - 1) : ret.scores[j] < ret.scores[i]
            /\ ret.score = ret.scores[i]
            /\ ret.supplier = IF ret.scores[i] >= 30 THEN ret.labels[i] ELSE "UNKNOWN"

\* C11 witness: two suppliers tie at the maximum, which is exactly the
\* threshold, and the first one in training order is returned.
C11_Witness ==
    /\ ret # NoArg
    /\ Len(arg.profiles) = 2
    /\ ret.score = 30
    /\ \E i, j \in 1..Len(ret.scores) :
          /\ i < j
          /\ ret.scores[i] = 30
          /\ ret.scores[j] = 30
          /\ ret.labels[i] # ret.labels[j]
          /\ \A k \in 1..(i - 1) : ret.scores[k] < 30
          /\ ret.supplier = ret.labels[i]

\* C12: the first pattern of DATE_PATTERNS that matches the text determines
\* the result of extract_invoice_date: a date that is returned comes from
\* the highest-priority pattern that matches, never from a lower one.
C12_FirstMatchDetermines ==
    (ret.fn = "extract_invoice_date" /\ ret.date # None) =>
        \A k \in ret.matched : ret.pattern <= k

\* C13 as stated: a text containing "BILLING DATE: Ost 5, 2024" extracts
\* 2024-10, and the input "Jun 2,-2025" extracts 2025-06.
C13_OcrRepairBareInput ==
    ret.fn = "extract_invoice_date" =>
        /\ (\E i \in 1..Len(arg.text) :
               /\ i + 24 <= Len(arg.text)
               /\ SubSeq(arg.text, i, i + 24) = "BILLING DATE: Ost 5, 2024")
           => ret.date = "2024-10"
        /\ arg.text = "Jun 2,-2025" => ret.date = "2025-06"

\* C13 amended: a text containing "BILLING DATE: Ost 5, 2024" extracts
\* 2024-10; "Jun 2,-2025" after a date label extracts 2025-06; the bare
\* input "Jun 2,-2025" has no label and extracts nothing.
C13_OcrRepairUnderLabel ==
    ret.fn = "extract_invoice_date" =>
        /\ (\E i \in 1..Len(arg.text) :
               /\ i + 24 <= Len(arg.text)
               /\ SubSeq(arg.text, i, i + 24) = "BILLING DATE: Ost 5, 2024")
           => ret.date = "2024-10"
        /\ arg.text = "Invoice Date: Jun 2,-2025" => ret.date = "2025-06"
        /\ arg.text = "Jun 2,-2025" => ret.date = None

\* C13 witness: the ",-" artifact after the invoice label has been repaired
\* and parsed.
C13_Witness ==
    /\ ret.fn = "extract_invoice_date"
    /\ arg.text = "Invoice Date: Jun 2,-2025"
    /\ ret.date = "2025-06"

\* C14: extract_amount_from_text applies its rules in strict priority: an
\* amount a supplier pattern yields is the one returned, and without one the
\* Subtotal-labelled amount is returned only when the text has no amount
\* labelled Total, Invoice Total, Amount Due, Amount or Balance Due.
C14_StrictPriority ==
    ret.fn = "extract_amount_from_text" =>
        /\ Truthy(ret.by_supplier) => ret.amount = ret.by_supplier
        /\ (~Truthy(ret.by_supplier) /\ ret.amount = "5.00") =>
               \A k \in 1..Len(arg.parts) : arg.parts[k].label \notin TotalFamily

\* C15: the extract_..._from_location functions never raise; for a supplier
\* with no box for the field they return None and extract_text_from_region
\* is not called; for a rendering or OCR failure or a missing Tesseract they
\* return None.
C15_LocationNeverRaises ==
    ret.fn = "extract_from_location" =>
        /\ ret.raised = ""
        /\ (\/ arg.supplier_code \notin DOMAIN location_mappings
            \/ arg.key \notin DOMAIN location_mappings[arg.supplier_code])
           => (ret.value = None /\ ret.region_calls = 0)
        /\ (~arg.machine.tesseract \/ ~arg.machine.render) => ret.value = None

\* C15 witness: the supplier has the box, Tesseract is missing, and the
\* function went to the region and returned None.
C15_Witness ==
    /\ ret.fn = "extract_from_location"
    /\ arg.supplier_code \in DOMAIN location_mappings
    /\ arg.key \in DOMAIN location_mappings[arg.supplier_code]
    /\ ~arg.machine.tesseract
    /\ ret.region_calls = 1
    /\ ret.value = None

\* C16: every supplier entry of the location file has at least one of the
\* boxes po, amount, invoice, and a call of add_supplier_location that
\* supplies no box raises ValueError and leaves the file as it was.
C16_EntryHasBox ==
    /\ [](\A s \in DOMAIN location_mappings :
             DOMAIN location_mappings[s] \cap BoxKeys # {})
    /\ [][(/\ ret'.fn = "add_supplier_location"
           /\ \A box \in {arg'.po_box, arg'.amount_box, arg'.invoice_box} :
                  \A b \in box : DOMAIN b = {})
          => (ret'.raised = "ValueError" /\ UNCHANGED location_mappings)]_vars

\* C16 witness: a call with an empty dict for a box and nothing else was
\* refused while the file holds an entry.
C16_Witness ==
    /\ ret.fn = "add_supplier_location"
    /\ arg.po_box = {<< >>}
    /\ arg.amount_box = {}
    /\ arg.invoice_box = {}
    /\ ret.raised = "ValueError"
    /\ location_mappings # NoRows

\* C17: save_profiles and load_profiles do not surface a failure of the
\* SQLite store: with the store down save_profiles writes the JSON file and
\* load_profiles returns what the file holds, or the empty map for a file
\* that is missing, empty or cannot be parsed; only save_profiles with both
\* stores failing raises.
C17_StoreFailureNotSurfaced ==
    /\ ret.fn = "load_profiles" => ret.raised = ""
    /\ (ret.fn = "load_profiles" /\ ~arg.db_up) =>
           ret.value = (IF profile_file.exists /\ profile_file.kind = "json"
                        THEN profile_file.content ELSE << >>)
    /\ (ret.fn = "save_profiles" /\ ret.raised # "") => (~arg.db_up /\ arg.write # "ok")
    /\ (ret.fn = "save_profiles" /\ ~arg.db_up /\ arg.write = "ok") =>
           profile_file = [exists |-> TRUE, kind |-> "json", content |-> gui_profiles]

\* C18: whatever sample-adding operation runs, in whatever order, a sample
\* that is in the classification_samples table is still in it afterwards.
C18_StoredSampleStays ==
    [][\A i \in 1..Len(classification_samples) :
           \E j \in 1..Len(classification_samples') :
               classification_samples'[j] = classification_samples[i]]_vars

\* C19: after any sequence of save_extraction_result calls the table holds
\* at most one row for a filename, the row of the filename just saved
\* carries exactly the values of that save, and a save leaves the rows of
\* the other filenames as they were.
C19_LastSaveWins ==
    /\ [](\A i, j \in 1..Len(extraction_results.rows) :
             extraction_results.rows[i].filename = extraction_results.rows[j].filename
                 => i = j)
    /\ [](arg.fn = "save_extraction_result" =>
             \E i \in 1..Len(extraction_results.rows) :
                 \A field \in DOMAIN arg \ {"fn"} :
                     extraction_results.rows[i][field] = arg[field])
    /\ [][\A f \in {"2024-03_ACME1_invoice.pdf", "scan0001.pdf"} \ {arg'.filename} :
             { r \in { extraction_results.rows[i] : i \in 1..Len(extraction_results.rows) } :
                 r.filename = f }
             = { r \in { extraction_results'.rows[i] : i \in 1..Len(extraction_results'.rows) } :
                   r.filename = f }]_vars

\* C19 witness: three saves have left two rows, so one save replaced an
\* earlier row of its file; the last save's row and the other file's row
\* are both there.
C19_Witness ==
    /\ arg.fn = "save_extraction_result"
    /\ extraction_results.seq = 3
    /\ Len(extraction_results.rows) = 2
    /\ \E i \in 1..2 : /\ extraction_results.rows[i].filename = arg.filename
                       /\ extraction_results.rows[i].id = 3
                       /\ extraction_results.rows[i].status = "complete"
    /\ \E i \in 1..2 : /\ extraction_results.rows[i].filename # arg.filename
                       /\ extraction_results.rows[i].id = 2

\* C20: the human_field a call of process_file_with_supplier stores is Y when
\* a stored value came from manual entry and N when no person supplied or
\* confirmed anything: the window was not opened, or it was opened and the
\* person skipped the file.
C20_HumanFlagExact ==
    [][ (/\ last' # last
         /\ last'.called
         /\ last'.exc = "none"
         /\ last'.result.filename \in DOMAIN ledger'
         /\ ledger' # ledger) =>
           LET stored == ledger'[last'.result.filename].human_field
               typed == /\ last'.ui_shown
                        /\ last'.human.save
                        /\ (last'.human.po # Keep \/ last'.human.amount # ""
                            \/ last'.human.check # "")
               nobody == ~last'.ui_shown \/ ~last'.human.save
           IN  /\ typed => stored = "Y"
               /\ nobody => stored = "N" ]_vars

\* C21: a file whose name does not start with \d{4}-\d{2}_([A-Z0-9]+)_ comes
\* back from process_file_with_supplier with status error, with no PO or
\* amount extraction run and the manual entry window never opened; a file
\* whose name does start so gets exactly group 1 as its supplier.
C21_NoSupplierIsError ==
    last.called =>
        LET SupplierRe == Cat(<<Rep(D, 4, 4), Lit("-"), Rep(D, 2, 2), Lit("_"),
                                Grp(Plus(Cls(UpperLetters \cup Digits))), Lit("_")>>)
            Code(ways, f) == IF ways = << >> THEN None ELSE Group1(f, ways[1])
            Holds(code) ==
                /\ code = None =>
                     /\ last.result.status = "error"
                     /\ last.result.supplier = None
                     /\ last.result.po_number = None
                     /\ last.result.amount = NoAmount
                     /\ last.po_candidates = << >>
                     /\ last.amount_str = None
                     /\ ~last.ui_shown
                /\ (code # None /\ last.exc # "extract_text") => last.result.supplier = code
        IN  Holds(Code(ReMatch(SupplierRe, last.result.filename, 1), last.result.filename))

\* C21 witness: the file scan0001.pdf was processed and came back as an error
C21_Witness ==
    /\ last.called
    /\ last.result.filename = "scan0001.pdf"
    /\ last.result.status = "error"
    /\ last.exc = "none"

\* C23: for supplier ELAD01 extract_po_with_supplier_profile returns at most
\* one PO, whatever the text and the stored pattern profile, and when the
\* generic patterns match, that PO is the first generic match.
C23_Elad01AtMostOne ==
    (ret # NoArg /\ arg.supplier = "ELAD01" /\ ~ret.raised) =>
        LET Holds(firsts) ==
                /\ Len(ret.list) <= 1
                /\ firsts # {} => (ret.list # << >> /\ ret.list[1] \in firsts)
        IN  Holds({ g[1] : g \in { l \in extract_po_number(arg.text) : l # << >> } })

\* C25: for a fixed text, supplier and stored profile the list
\* extract_po_with_supplier_profile returns is the same on every run: the
\* list one call returned is the list every call on these arguments returns,
\* also when two candidates have the same main part and differ in the suffix.
C25_SameListEveryRun ==
    (ret # NoArg /\ ~ret.raised) =>
        \A run \in extract_po_with_supplier_profile(arg.text, arg.supplier, arg.profiles) :
            run.list = ret.list

\* C27: every row process_file_with_supplier stored with status complete or
\* complete_manual has a PO number and an amount, neither of them null.
C27_CompleteRowHasBoth ==
    \A f \in DOMAIN ledger :
        ledger[f].status \in {"complete", "complete_manual"} =>
            /\ ledger[f].po_number # None
            /\ ledger[f].amount # NoAmount

\* C28: a row the person stored with DocumentProcessor.save_record (the only
\* writer of status pending) is not selected by the next
\* process_batch_improved and is not replaced by the row of an automatic
\* extraction.
C28_ManualSaveStays ==
    [][ \A f \in DOMAIN ledger :
          ledger[f].status = "pending" =>
            /\ (pc = "idle" /\ pc' = "batch") => \A i \in 1..Len(queue') : queue'[i] # f
            /\ ledger'[f] = ledger[f] \/ ledger'[f].status = "pending" ]_vars

\* C30: when save_profiles(p) returned without an exception, the load_profiles
\* call that comes next returns p, whether or not SQLite was usable at either
\* call.
C30_SaveThenLoad ==
    [][ (/\ ret # NoArg /\ ret.fn = "save_profiles" /\ ret.raised = ""
         /\ ret'.fn = "load_profiles") =>
           (ret'.raised = "" /\ ret'.value = gui_profiles) ]_vars

\* C22: in both extraction flows a field with a configured box is taken
\* from the box first. When the supplier of the file has a PO box and
\* extract_po_from_location reads a PO in it, the PO that
\* process_file_with_supplier gives without the manual entry window is that
\* PO; and after DocumentProcessor.extract_data_from_pdf a value the
\* location step returned is the value of the field, the text patterns are
\* not tried for it, and they are tried only for a field still empty after
\* the location step.
C22_LocationFirst ==
    /\ (last.called /\ ~last.ui_shown /\ Truthy(last.result.supplier)) =>
          LET FromBox(loc) == Truthy(loc.value) => last.result.po_number = loc.value
          IN  FromBox(extract_from_location("po", location_mappings, last.result.supplier,
                          [tesseract |-> TRUE, render |-> TRUE,
                           text |-> (CHOOSE d \in {FolderDocs[i] : i \in 1..Len(FolderDocs)} :
                                        d.filename = last.result.filename).po_box]))
    /\ (ret.fn = "extract_data_from_pdf" /\ ret.ran /\ ~ret.failed) =>
          /\ Truthy(ret.location_po) =>
                /\ processor.extracted_data.po_number = ret.location_po
                /\ ~ret.text_po_tried
          /\ Truthy(ret.location_amount) =>
                /\ processor.extracted_data.amount = ret.location_amount
                /\ ~ret.text_amount_tried

\* C26: when DocumentProcessor goes from one loaded file to another, no PO and no amount is
\* left in extracted_data or in the form, and the supplier code there is
\* the one of the new file name or empty.
C26_LoadStartsClean ==
    [][ (/\ processor.running
         /\ processor.current_pdf_path # None
         /\ processor'.current_pdf_path # processor.current_pdf_path) =>
          LET Clean(fields) ==
                /\ fields.po_number = ""
                /\ fields.amount = ""
                /\ fields.supplier_code \in
                      {"", match_supplier_from_filename(processor'.current_pdf_path)}
          IN  Clean(processor'.extracted_data) /\ Clean(processor'.form_fields) ]_vars

\* C24: at every human-confirmation step the person can stop the whole
\* batch. While the manual entry window of process_batch_improved is open
\* and files of the batch are still to come, some way of closing the window
\* ends the batch without an exception and without processing them.
C24_CanStopBatch ==
    (pc = "manual" /\ Len(queue) > 1) =>
        ENABLED (ManualEntryClosed /\ pc' = "idle" /\ escaped' = FALSE)

\* C29: between the batches of the legacy loop, the remaining count of
\* get_status is the number of PDFs not attempted yet (neither recorded as
\* completed nor holding a result), and once the loop has reported that all
\* files have been processed there is no such PDF.
C29_RemainingIsUnattempted ==
    (legacy.running /\ legacy.pc \in {"top", "ask", "done", "halted"}) =>
        LET Unattempted ==
                {i \in 1..Len(LegacyDocs) :
                    /\ \A k \in 1..Len(legacy.progress_file.completed) :
                          legacy.progress_file.completed[k] # LegacyDocs[i].filename
                    /\ LegacyDocs[i].filename \notin DOMAIN legacy.results_file}
        IN  /\ get_status(legacy.progress_file, legacy.results_file).remaining
                  = Cardinality(Unattempted)
            /\ legacy.reported => Unattempted = {}

====
